---- MODULE Spec2Model ----
(***************************************************************************)
(* Pay-per-request access gateway.                                         *)
(*                                                                         *)
(*   AIAccessMarketplace  (contracts/src/AIAccessMarketplace.sol)  ledger  *)
(*   X402Processor        (contracts/src/X402Processor.sol)     settlement *)
(*   backend relay        (services/blockchain.js, x402PaymentModule.js,   *)
(*                         routes/ai.js)                                   *)
(*                                                                         *)
(* Units.  Native amounts are counted in 0.001 ether, token amounts in     *)
(* 0.01 USDC, ledger time in days.  Every price of the source is a whole   *)
(* number of these units, so "one unit under" and "one unit over" a price  *)
(* are distinct values of the model.                                       *)
(***************************************************************************)
EXTENDS Integers, Sequences, FiniteSets, TLC

(***************************************************************************)
(* Bounds of the exploration.                                              *)
(***************************************************************************)
MaxTime == 9
MaxOps == 2
UintMod == 4096

(***************************************************************************)
(* Identities.                                                             *)
(***************************************************************************)
Owner == "owner"
Addr == {"owner", "alice"}
RequestIds == {"id1", "id2"}

(***************************************************************************)
(* AIAccessMarketplace: pricing constants.                                 *)
(***************************************************************************)
REQUEST_PRICE == 1
PREMIUM_7_DAYS_PRICE == 10
PREMIUM_30_DAYS_PRICE == 30
CREDIT_PACK_PRICE == 8
CREDITS_PER_PACK == 10
ONE_DAY == 1

VARIABLES
    now,              \* block.timestamp
    premiumExpiry,    \* mapping(address => uint256)
    credits,          \* mapping(address => uint256)
    usedRequestIds,   \* mapping(bytes32 => bool)
    contractBalance,  \* address(this).balance
    requestPaid,      \* log of RequestPaid events
    opCount,          \* number of mined state-changing transactions
    last,             \* the latest ledger call and its outcome
    usedNonces,       \* X402Processor: mapping(address => mapping(bytes32 => bool))
    paymentProcessed, \* log of PaymentProcessed events
    tokenBalance,     \* token: balanceOf
    tokenAuthUsed,    \* token: authorizationState
    tokenTransfers,   \* log of the token transfers made
    plast,            \* the latest processor call, its input and outcome
    req,              \* the request in the relay's handler, and its response
    config,           \* what the relay was started with
    redeemed,         \* the callIds that have given a per-request access
    client            \* X402Client.fetch: the call in progress and its result

ledgerVars == <<premiumExpiry, credits, usedRequestIds, contractBalance,
                requestPaid, last>>

processorVars == <<usedNonces, paymentProcessed, tokenBalance, tokenAuthUsed,
                   tokenTransfers, plast>>

relayVars == <<req, config, redeemed, client>>

vars == <<now, premiumExpiry, credits, usedRequestIds, contractBalance,
          requestPaid, opCount, last, usedNonces, paymentProcessed,
          tokenBalance, tokenAuthUsed, tokenTransfers, plast, req, config,
          redeemed, client>>

\* unchecked uint256 arithmetic, at the width of the model
Wrap(x) == x % UintMod

Outcome(op, result) == [op |-> op, result |-> result]

\* A mined transaction that changed state; the exploration stops at MaxOps.
Mined == opCount < MaxOps /\ opCount' = opCount + 1

\* A reverted transaction: nothing but the observed outcome changes.
LedgerRevert(op, err) ==
    /\ last' = Outcome(op, err)
    /\ UNCHANGED <<now, premiumExpiry, credits, usedRequestIds,
                   contractBalance, requestPaid, opCount>>

\* variant: an overpayment is accepted
PaymentIncorrect_underOnly(value, price) == value < price

\* msg.value != price
PaymentIncorrect(value, price) == value # price

\* variant: nobody is turned away
NotOwner_nobody(sender) == FALSE

\* msg.sender != owner
NotOwner(sender) == sender # Owner

(***************************************************************************)
(* payPerRequest                                                           *)
(***************************************************************************)
RequestIdAlreadyUsed_never(requestId) == FALSE

RequestIdAlreadyUsed(requestId) == usedRequestIds[requestId]

MarkRequestIdUsed_overwrite(requestId) == [i \in RequestIds |-> i = requestId]

MarkRequestIdUsed(requestId) == [usedRequestIds EXCEPT ![requestId] = TRUE]

\* variant: the event carries no timestamp
RequestPaidEvent_undated(sender, requestId, value) ==
    [user |-> sender, requestId |-> requestId, amount |-> value,
     timestamp |-> 0]

\* RequestPaid(msg.sender, requestId, msg.value, block.timestamp)
RequestPaidEvent(sender, requestId, value) ==
    [user |-> sender, requestId |-> requestId, amount |-> value,
     timestamp |-> now]

payPerRequest(sender, requestId, value) ==
    IF PaymentIncorrect(value, REQUEST_PRICE)
    THEN LedgerRevert("payPerRequest", "IncorrectPayment")
    ELSE IF RequestIdAlreadyUsed(requestId)
    THEN LedgerRevert("payPerRequest", "RequestIdAlreadyUsed")
    ELSE /\ Mined
         /\ usedRequestIds' = MarkRequestIdUsed(requestId)
         /\ requestPaid' = Append(requestPaid,
                RequestPaidEvent(sender, requestId, value))
         /\ contractBalance' = contractBalance + value
         /\ last' = Outcome("payPerRequest", "ok")
         /\ UNCHANGED <<now, premiumExpiry, credits>>

(***************************************************************************)
(* buyPro / grantPremium                                                   *)
(***************************************************************************)
\* variant: the new period always starts now
StartTime_fromNow(user) == now

StartTime(user) ==
    IF premiumExpiry[user] > now THEN premiumExpiry[user] ELSE now

NewExpiry(user, durationDays) == Wrap(StartTime(user) + Wrap(durationDays * ONE_DAY))

buyPro(sender, durationDays, value) ==
    IF durationDays \notin {7, 30}
    THEN LedgerRevert("buyPro", "InvalidDuration")
    ELSE IF PaymentIncorrect(value, IF durationDays = 7
                                    THEN PREMIUM_7_DAYS_PRICE
                                    ELSE PREMIUM_30_DAYS_PRICE)
    THEN LedgerRevert("buyPro", "IncorrectPayment")
    ELSE /\ Mined
         /\ premiumExpiry' = [premiumExpiry EXCEPT
                                ![sender] = NewExpiry(sender, durationDays)]
         /\ contractBalance' = contractBalance + value
         /\ last' = Outcome("buyPro", "ok")
         /\ UNCHANGED <<now, credits, usedRequestIds, requestPaid>>

grantPremium(sender, user, durationDays) ==
    IF NotOwner(sender)
    THEN LedgerRevert("grantPremium", "NotOwner")
    ELSE /\ Mined
         /\ premiumExpiry' = [premiumExpiry EXCEPT
                                ![user] = NewExpiry(user, durationDays)]
         /\ last' = Outcome("grantPremium", "ok")
         /\ UNCHANGED <<now, credits, usedRequestIds, contractBalance,
                        requestPaid>>

(***************************************************************************)
(* buyCredits / grantCredits / useCredit / useCredits                      *)
(***************************************************************************)
\* variant: one pack is credited whatever the count
NewCredits_onePack(packs) == CREDITS_PER_PACK

\* newCredits = packs * CREDITS_PER_PACK, unchecked
NewCredits(packs) == Wrap(packs * CREDITS_PER_PACK)

\* variant: buying credits ends the buyer's premium
buyCredits_endsPremium(sender, packs, value) ==
    IF packs = 0
    THEN LedgerRevert("buyCredits", "InvalidPackCount")
    ELSE IF PaymentIncorrect(value, Wrap(packs * CREDIT_PACK_PRICE))
    THEN LedgerRevert("buyCredits", "IncorrectPayment")
    ELSE /\ Mined
         /\ credits' = [credits EXCEPT ![sender] = Wrap(@ + NewCredits(packs))]
         /\ premiumExpiry' = [premiumExpiry EXCEPT ![sender] = 0]
         /\ contractBalance' = contractBalance + value
         /\ last' = Outcome("buyCredits", "ok")
         /\ UNCHANGED <<now, usedRequestIds, requestPaid>>

buyCredits(sender, packs, value) ==
    IF packs = 0
    THEN LedgerRevert("buyCredits", "InvalidPackCount")
    ELSE IF PaymentIncorrect(value, Wrap(packs * CREDIT_PACK_PRICE))
    THEN LedgerRevert("buyCredits", "IncorrectPayment")
    ELSE /\ Mined
         /\ credits' = [credits EXCEPT ![sender] = Wrap(@ + NewCredits(packs))]
         /\ contractBalance' = contractBalance + value
         /\ last' = Outcome("buyCredits", "ok")
         /\ UNCHANGED <<now, premiumExpiry, usedRequestIds, requestPaid>>

grantCredits(sender, user, amount) ==
    IF NotOwner(sender)
    THEN LedgerRevert("grantCredits", "NotOwner")
    ELSE /\ Mined
         /\ credits' = [credits EXCEPT ![user] = Wrap(@ + amount)]
         /\ last' = Outcome("grantCredits", "ok")
         /\ UNCHANGED <<now, premiumExpiry, usedRequestIds, contractBalance,
                        requestPaid>>

useCredit(sender, user) ==
    IF credits[user] = 0
    THEN LedgerRevert("useCredit", "NoCreditsAvailable")
    ELSE /\ Mined
         /\ credits' = [credits EXCEPT ![user] = @ - 1]
         /\ last' = Outcome("useCredit", "ok")
         /\ UNCHANGED <<now, premiumExpiry, usedRequestIds, contractBalance,
                        requestPaid>>

\* variant: the balance is not compared with the amount
CreditsInsufficient_never(user, amount) == FALSE

\* credits[user] < amount
CreditsInsufficient(user, amount) == credits[user] < amount

useCredits(sender, user, amount) ==
    IF amount = 0
    THEN LedgerRevert("useCredits", "InvalidPackCount")
    ELSE IF CreditsInsufficient(user, amount)
    THEN LedgerRevert("useCredits", "NoCreditsAvailable")
    ELSE /\ Mined
         /\ credits' = [credits EXCEPT ![user] = @ - amount]
         /\ last' = Outcome("useCredits", "ok")
         /\ UNCHANGED <<now, premiumExpiry, usedRequestIds, contractBalance,
                        requestPaid>>

(***************************************************************************)
(* withdraw: the owner's receive may accept or reject the transfer.        *)
(***************************************************************************)
withdraw(sender, accepted) ==
    IF NotOwner(sender)
    THEN LedgerRevert("withdraw", "NotOwner")
    ELSE IF ~accepted
    THEN LedgerRevert("withdraw", "WithdrawFailed")
    ELSE /\ Mined
         /\ contractBalance' = 0
         /\ last' = Outcome("withdraw", "ok")
         /\ UNCHANGED <<now, premiumExpiry, credits, usedRequestIds,
                        requestPaid>>

(***************************************************************************)
(* Views                                                                   *)
(***************************************************************************)
hasPremium(user) == premiumExpiry[user] > now

getCredits(user) == credits[user]

isRequestIdUsed(requestId) == usedRequestIds[requestId]

(***************************************************************************)
(* X402Processor.                                                          *)
(*                                                                         *)
(* A 65-byte signature is either an ECDSA signature made with the key of   *)
(* some account over some digest, or bytes from which no signer can be     *)
(* recovered; a byte string of any other length is BadLength.  keccak256   *)
(* and abi.encode are injective, so a digest is the tuple it was computed  *)
(* from.  ecrecover gives the signing account when the digest is the one   *)
(* that was signed, the zero address when nothing can be recovered, and    *)
(* otherwise an address that belongs to nobody.                            *)
(***************************************************************************)
ZeroAddress == "0x0"
Nobody == "0x?"
Receiver == "receiver"
ThisDomain == "x402 Payment/1/chain/this"
OtherDomain == "x402 Payment/1/chain/other"
Domains == {ThisDomain, OtherDomain}
Nonces == {"n1", "n2"}
Memos == {"m1", "m2"}
Amounts == {1, 2}
TokenNonces == {"t1", "t2"}
ValidBefore == 21

Sign(key, digest) == [kind |-> "ecdsa", signer |-> key, digest |-> digest]
Unrecoverable == [kind |-> "unrecoverable"]
BadLength == [kind |-> "badLength"]

ecrecover(digest, sig) ==
    IF sig.kind = "ecdsa"
    THEN (IF sig.digest = digest THEN sig.signer ELSE Nobody)
    ELSE ZeroAddress

\* keccak256("\x19\x01" || DOMAIN_SEPARATOR || structHash)
PaymentDigest(domain, from, amount, nonce, deadline, memo) ==
    <<domain, "Payment", from, amount, nonce, deadline, memo>>

NonceConsumed_perAmount(from, amount, nonce) ==
    \E k \in 1..Len(paymentProcessed) :
        /\ paymentProcessed[k].from = from
        /\ paymentProcessed[k].nonce = nonce
        /\ paymentProcessed[k].amount = amount

NonceConsumed(from, amount, nonce) == <<from, nonce>> \in usedNonces

DeadlinePassed_never(deadline) == FALSE

DeadlinePassed(deadline) == now > deadline

\* "true", "false", or "revert" when splitSignature rejects the length
verifyPaymentSignature(from, amount, nonce, deadline, memo, signature) ==
    IF NonceConsumed(from, amount, nonce) THEN "false"
    ELSE IF DeadlinePassed(deadline) THEN "false"
    ELSE IF signature.kind = "badLength" THEN "revert"
    ELSE IF ecrecover(PaymentDigest(ThisDomain, from, amount, nonce,
                                    deadline, memo), signature) = from
         THEN "true" ELSE "false"

(***************************************************************************)
(* The token behind IERC20EIP3009.transferWithAuthorization: the transfer  *)
(* reverts outside (validAfter, validBefore), on a used authorization      *)
(* nonce, on a signature that is not the holder's, and on a balance below  *)
(* the value.                                                              *)
(***************************************************************************)
TransferDigest(from, to, value, validAfter, validBefore, nonce) ==
    <<"TransferWithAuthorization", from, to, value, validAfter, validBefore,
      nonce>>

TransferCanSucceed(from, to, value, auth) ==
    /\ now > auth.validAfter
    /\ now < auth.validBefore
    /\ <<from, auth.nonce>> \notin tokenAuthUsed
    /\ ecrecover(TransferDigest(from, to, value, auth.validAfter,
                                auth.validBefore, auth.nonce), auth.sig) = from
    /\ from \in DOMAIN tokenBalance
    /\ tokenBalance[from] >= value

Authorization(from, amount, nonce, deadline, memo) ==
    [from |-> from, amount |-> amount, nonce |-> nonce, deadline |-> deadline,
     memo |-> memo]

NoInput == [from |-> "none"]

AuthorizationOf(input) ==
    Authorization(input.from, input.amount, input.nonce, input.deadline,
                  input.memo)

\* The outcome of a call and the authorization it carried; the whole input
\* is kept while it can be resubmitted after a reverted transfer.
PaymentOutcome(op, input, result) ==
    [op |-> op, result |-> result, auth |-> AuthorizationOf(input),
     input |-> IF result = "TransferReverted" THEN input ELSE NoInput,
     resubmitted |-> /\ op = "processPayment"
                     /\ plast.result = "TransferReverted"
                     /\ plast.input = input]

\* A reverted processPayment: the transaction leaves no trace on chain.
ProcessorRevert(input, err) ==
    /\ plast' = PaymentOutcome("processPayment", input, err)
    /\ UNCHANGED <<usedNonces, paymentProcessed, tokenBalance, tokenAuthUsed,
                   tokenTransfers, opCount>>

\* variant: the failure of the token call is swallowed after the nonce is marked
TransferReverted_swallowed(input) ==
    /\ plast' = PaymentOutcome("processPayment", input, "TransferReverted")
    /\ usedNonces' = usedNonces \cup {<<input.from, input.nonce>>}
    /\ UNCHANGED <<paymentProcessed, tokenBalance, tokenAuthUsed,
                   tokenTransfers, opCount>>

\* the revert of the token call propagates: the nonce write is undone with it
TransferReverted(input) == ProcessorRevert(input, "TransferReverted")

\* variant: the tokens go to the account that sent the transaction
TokenTransfer_toSender(input) ==
    [from |-> input.from, to |-> "msg.sender", value |-> input.amount]

\* usdc.transferWithAuthorization(from, receiver, amount, ...)
TokenTransfer(input) ==
    [from |-> input.from, to |-> Receiver, value |-> input.amount]

SignatureRequired_unchecked(verdict) == verdict # "revert"

SignatureRequired(verdict) == verdict = "true"

processPayment(input) ==
    LET verdict == verifyPaymentSignature(input.from, input.amount,
                       input.nonce, input.deadline, input.memo,
                       input.signature)
    IN  IF verdict = "revert"
        THEN ProcessorRevert(input, "InvalidSignatureLength")
        ELSE IF ~SignatureRequired(verdict)
        THEN ProcessorRevert(input, "InvalidPaymentSignature")
        ELSE IF ~TransferCanSucceed(input.from, Receiver, input.amount,
                                    input.usdcAuth)
        THEN TransferReverted(input)
        ELSE /\ Mined
             /\ usedNonces' = usedNonces \cup {<<input.from, input.nonce>>}
             /\ tokenAuthUsed' = tokenAuthUsed
                                   \cup {<<input.from, input.usdcAuth.nonce>>}
             /\ tokenBalance' = [tokenBalance EXCEPT
                                   ![input.from] = @ - input.amount]
             /\ tokenTransfers' = Append(tokenTransfers, TokenTransfer(input))
             /\ paymentProcessed' = Append(paymentProcessed,
                    [from |-> input.from, amount |-> input.amount,
                     nonce |-> input.nonce])
             /\ plast' = PaymentOutcome("processPayment", input, "ok")

\* eth_call of the view function: the result is observed, nothing is written
callVerifyPaymentSignature(input) ==
    /\ plast' = PaymentOutcome("verifyPaymentSignature", input,
                    verifyPaymentSignature(input.from, input.amount,
                        input.nonce, input.deadline, input.memo,
                        input.signature))
    /\ UNCHANGED <<usedNonces, paymentProcessed, tokenBalance, tokenAuthUsed,
                   tokenTransfers, opCount>>

(***************************************************************************)
(* The inputs a caller can present.                                        *)
(***************************************************************************)
\* one authorization, and the ones that differ from it in the amount, the
\* memo, the signer, the nonce (with a later deadline) or have no signer
Authorizations ==
    { Authorization("alice", 1, "n1", 5, "m1"),
      Authorization("alice", 2, "n1", 5, "m1"),
      Authorization("alice", 1, "n1", 5, "m2"),
      Authorization("owner", 1, "n1", 5, "m1"),
      Authorization("alice", 1, "n2", 20, "m1"),
      Authorization(ZeroAddress, 1, "n1", 5, "m1") }

Differences(x, y) == Cardinality({k \in 1..Len(x) : x[k] # y[k]})

\* the signature of `from` over the authorization, the signatures that are
\* wrong in one respect, and the two kinds of bytes that are no signature
SignaturesFor(auth) ==
    {Sign(v[1], PaymentDigest(v[2], auth.from, v[3], auth.nonce,
                              auth.deadline, v[4])) :
        v \in {w \in Addr \X Domains \X Amounts \X Memos :
                 Differences(w, <<auth.from, ThisDomain, auth.amount,
                                  auth.memo>>) <= 1}}
    \cup {Unrecoverable, BadLength}

GoodSignature(auth) ==
    Sign(auth.from, PaymentDigest(ThisDomain, auth.from, auth.amount,
                                  auth.nonce, auth.deadline, auth.memo))

UsdcAuth(from, amount, key, tokenNonce) ==
    [validAfter |-> 0, validBefore |-> ValidBefore, nonce |-> tokenNonce,
     sig |-> Sign(key, TransferDigest(from, Receiver, amount, 0, ValidBefore,
                                      tokenNonce))]

UsdcAuthsFor(auth) ==
    {UsdcAuth(auth.from, auth.amount, k, "t1") : k \in Addr}
    \cup {UsdcAuth(auth.from, auth.amount, auth.from, "t2")}

PaymentInput(auth, signature, usdcAuth) ==
    [from |-> auth.from, amount |-> auth.amount, nonce |-> auth.nonce,
     deadline |-> auth.deadline, memo |-> auth.memo,
     signature |-> signature, usdcAuth |-> usdcAuth]

\* an authorization under each signature with a good token authorization,
\* and under its good signature with each token authorization
InputsOf(auth) ==
    {PaymentInput(auth, sg, UsdcAuth(auth.from, auth.amount, auth.from, "t1")) :
        sg \in SignaturesFor(auth)}
    \cup {PaymentInput(auth, GoodSignature(auth), ua) :
             ua \in UsdcAuthsFor(auth)}

PaymentInputs == UNION {InputsOf(auth) : auth \in Authorizations}

(***************************************************************************)
(* The relay: backend/src/services/blockchain.js, the x402 payment module  *)
(* and the routes /generate and /purchase.  One request is in the handler  *)
(* at a time; each await of the handler is a step.                         *)
(***************************************************************************)
NoRequestId == "null"
NoPayment == NoInput
NoAccess == [allowed |-> FALSE, accessType |-> "unset", creditsUsed |-> 0,
             pricing |-> FALSE]

\* CREDIT_COSTS
CreditCosts == [text |-> 1, image |-> 3, video |-> 5]

\* config.x402.amounts, in units of 0.01 USDC
X402Amounts == [text |-> 1, image |-> 5, video |-> 10, creditPack |-> 8,
                premium7Days |-> 50, premium30Days |-> 150]

ValidCapabilities == {"text", "image", "video"}
ReadNames == {"premium", "credits", "payment"}

\* CREDIT_COSTS[capability] || 1
RequiredCredits(capability) ==
    IF capability \in DOMAIN CreditCosts THEN CreditCosts[capability] ELSE 1

\* the read is retried and, when every attempt has failed, answers false
checkPremium(address, failed) ==
    IF ~config.contract THEN FALSE
    ELSE IF failed THEN FALSE
    ELSE hasPremium(address)

\* variant: what a request in flight is about to debit is held back
relayGetCredits_reserved(address, failed) ==
    IF ~config.contract THEN 0
    ELSE IF failed THEN 0
    ELSE getCredits(address)
            - (IF req.peer.pc = "consume" /\ req.peer.address = address
               THEN req.peer.debit ELSE 0)

\* the read is retried and, when every attempt has failed, answers 0
relayGetCredits(address, failed) ==
    IF ~config.contract THEN 0
    ELSE IF failed THEN 0
    ELSE getCredits(address)

\* variant: a callId that is supplied is taken as paid for
verifyRequestPayment_unread(address, requestId, failed) == config.contract

\* contract.isRequestIdUsed(requestId); a read that throws answers false
verifyRequestPayment(address, requestId, failed) ==
    IF ~config.contract THEN FALSE
    ELSE IF failed THEN FALSE
    ELSE isRequestIdUsed(requestId)

PremiumFirst_creditsFirst(address, capability, failed) ==
    /\ checkPremium(address, "premium" \in failed)
    /\ relayGetCredits(address, "credits" \in failed)
           < RequiredCredits(capability)

PremiumFirst(address, capability, failed) ==
    checkPremium(address, "premium" \in failed)

\* `failed` names the ledger reads that fail on every attempt
checkAccess(address, requestId, capability, failed) ==
    IF ~config.contract
    THEN [allowed |-> TRUE, accessType |-> "demo", creditsUsed |-> 0,
          pricing |-> FALSE]
    ELSE IF PremiumFirst(address, capability, failed)
    THEN [allowed |-> TRUE, accessType |-> "premium", creditsUsed |-> 0,
          pricing |-> FALSE]
    ELSE IF relayGetCredits(address, "credits" \in failed)
                >= RequiredCredits(capability)
    THEN [allowed |-> TRUE, accessType |-> "credits",
          creditsUsed |-> RequiredCredits(capability), pricing |-> FALSE]
    ELSE IF /\ requestId # NoRequestId
            /\ verifyRequestPayment(address, requestId, "payment" \in failed)
    THEN [allowed |-> TRUE, accessType |-> "per-request", creditsUsed |-> 0,
          pricing |-> FALSE]
    ELSE
         [allowed |-> FALSE, accessType |-> "null", creditsUsed |-> 0,
          pricing |-> TRUE]

\* the ledger reads that checkAccess makes
ReadsMade(address, requestId, capability, failed) ==
    IF ~config.contract THEN {}
    ELSE IF checkPremium(address, "premium" \in failed) THEN {"premium"}
    ELSE IF relayGetCredits(address, "credits" \in failed)
                >= RequiredCredits(capability)
    THEN {"premium", "credits"}
    ELSE IF requestId # NoRequestId THEN {"premium", "credits", "payment"}
    ELSE {"premium", "credits"}

ReadFailures(address, requestId, capability) ==
    {f \in SUBSET ReadNames :
        f \subseteq ReadsMade(address, requestId, capability, f)}

\* the amount of the challenge of /generate
create402Response(capability) ==
    IF capability \in ValidCapabilities THEN X402Amounts[capability]
    ELSE X402Amounts.text

\* the amount of the challenge of /purchase
createPurchase402Response(type, packs) ==
    LET amount == IF type \in DOMAIN X402Amounts THEN X402Amounts[type]
                  ELSE 1
    IN  IF type = "creditPack" /\ packs > 1 THEN amount * packs ELSE amount

\* ethers.id: keccak256 of the text, which has no collisions
EthersId(text) == <<"keccak256", text>>

\* `${address}-${Date.now()}`, as /generate mints the identifier
GenerateRequestId(address, dateNow) == <<address, "-", dateNow>>

\* variant: the nonce is minted anew at each build
ChallengeNonce_fresh(requestId, dateNow) == EthersId(<<requestId, dateNow>>)

\* const nonce = ethers.id(requestId)
ChallengeNonce(requestId, dateNow) == EthersId(requestId)

\* Math.floor(Date.now() / 1000) + 3600, Date.now() in milliseconds
ChallengeDeadline(dateNow) == (dateNow \div 1000) + 3600

\* the payment object of the 402 response, built at dateNow
Challenge402(requestId, capability, dateNow) ==
    [amount |-> create402Response(capability),
     nonce |-> ChallengeNonce(requestId, dateNow),
     deadline |-> ChallengeDeadline(dateNow),
     memo |-> <<"AI Request: ", capability, " - ", requestId>>]

\* Block time is a whole number of days.  A time t of the chain is after a
\* time of x seconds iff t > DaysFloor(x), and before it iff t < DaysCeil(x).
DaySeconds == 24 * 60 * 60
DaysFloor(seconds) == seconds \div DaySeconds
DaysCeil(seconds) == (seconds + DaySeconds - 1) \div DaySeconds

\* Date.now() in milliseconds on a clock that agrees with the chain's, one
\* millisecond further on for each transaction mined since
DateNow == now * DaySeconds * 1000 + opCount

\* const requestId = `${address}-${Date.now()}`;
\* const payment402 = create402Response(requestId, capability);
\* the deadline is held in days of block time
Payment402(address, capability) ==
    LET built == Challenge402(GenerateRequestId(address, DateNow), capability,
                              DateNow)
    IN  [built EXCEPT !.deadline = DaysFloor(@)]

(***************************************************************************)
(* Wallet authentication: middleware/auth.js.  A body carries an address   *)
(* in some spelling, a message that was signed at some time, a signature   *)
(* and a timestamp field that no signature covers.  Wall-clock time is in  *)
(* minutes.                                                                *)
(***************************************************************************)
MaxAge == 5

Absent == "absent"
Null == "null"
NoMessage == [kind |-> "absent"]
NoSignature == [kind |-> "absent"]
Malformed == [kind |-> "malformed"]

\* "Sign this to prove wallet ownership: <timestamp>", signed at signedAt
Message(signedAt) == [kind |-> "text", signedAt |-> signedAt]

WalletSign(wallet, message) ==
    [kind |-> "personal", signer |-> wallet, message |-> message]

\* the checksummed addresses of two wallets, and the spellings of a body
Wallets == {"0xAB", "0xCD"}
Spellings == {"0xab", "0xAB", "0xcd"}

toLowerCase(a) ==
    CASE a = "0xAB" -> "0xab"
      [] a = "0xCD" -> "0xcd"
      [] OTHER -> a

\* ethers.verifyMessage: the signer when the signature is over this message,
\* some other address when it is over another, null when it throws
verifySignature(message, signature) ==
    IF signature.kind # "personal" THEN Null
    ELSE IF signature.message = message THEN signature.signer
    ELSE "0x??"

AuthBody(address, signature, message, timestamp) ==
    [address |-> address, signature |-> signature, message |-> message,
     timestamp |-> timestamp]

NoAuthBody == AuthBody(Absent, NoSignature, NoMessage, 0)

AuthOutcome(next, status, error, verifiedAddress, authSkipped) ==
    [next |-> next, status |-> status, error |-> error,
     verifiedAddress |-> verifiedAddress, authSkipped |-> authSkipped]

AuthRejected(status, error) == AuthOutcome(FALSE, status, error, Null, FALSE)

\* an absent timestamp, like 0, is falsy
verifyWalletAuth(body, dateNow) ==
    IF \/ body.address = Absent
       \/ body.signature = NoSignature
       \/ body.message = NoMessage
    THEN AuthRejected(400, "Missing authentication fields")
    ELSE IF body.timestamp # 0 /\ dateNow - body.timestamp > MaxAge
    THEN AuthRejected(401, "Signature expired")
    ELSE LET recoveredAddress == verifySignature(body.message, body.signature)
         IN  IF recoveredAddress = Null
             THEN AuthRejected(401, "Invalid signature")
             ELSE IF toLowerCase(recoveredAddress) # toLowerCase(body.address)
             THEN AuthRejected(401, "Signature mismatch")
             ELSE AuthOutcome(TRUE, 0, "none", recoveredAddress, FALSE)

optionalWalletAuth(body, dateNow) ==
    IF /\ body.signature # NoSignature
       /\ body.message # NoMessage
       /\ body.address # Absent
    THEN verifyWalletAuth(body, dateNow)
    ELSE AuthOutcome(TRUE, 0, "none",
                     IF body.address = Absent THEN Null ELSE body.address,
                     TRUE)

\* no ledger read is in its retry loop
NoRead == [name |-> "none"]

\* An async handler is suspended at each await, and the event loop may then
\* run another request's handler: `peer` is that other request, which has no
\* peer of its own while it is not the one running.
NoPeer == [pc |-> "none"]

\* a field that is absent from the payment data, or falsy
NoUsdcAuth == [nonce |-> "absent"]

\* a response that carries no payment object
NoChallenge == [nonce |-> "absent"]

IdleHandler ==
    [route |-> "none", pc |-> "idle", address |-> "none", item |-> "none",
     packs |-> 0, payment |-> NoPayment, access |-> NoAccess,
     repeat |-> FALSE, paidViaX402 |-> FALSE,
     actualAccessType |-> "unset", debit |-> 0,
     debitApplied |-> FALSE, granted |-> "none", status |-> 0,
     error |-> "none", challenge |-> 0, auth |-> NoAuthBody, dateNow |-> 0,
     verifiedAddress |-> Null, authSkipped |-> FALSE, rpc |-> <<>>,
     read |-> NoRead, payment402 |-> NoChallenge, peer |-> NoPeer]

IdleRequest == [IdleHandler EXCEPT !.peer = IdleHandler]

\* X402Client before a call of fetch
IdleClient ==
    [pc |-> "idle", address |-> "none", capability |-> "none", sends |-> 0,
     paymentSignatures |-> 0, usdcSignatures |-> 0, firstStatus |-> 0,
     payment |-> NoChallenge, paymentSignature |-> NoSignature,
     usdcAuth |-> NoUsdcAuth, status |-> 0, success |-> FALSE]

\* the response ends the request: what the handler held of its body is gone
Respond(r, status, error) ==
    [r EXCEPT !.pc = "done", !.status = status, !.error = error,
              !.address = "none", !.item = "none", !.packs = 0,
              !.payment = NoPayment, !.verifiedAddress = Null,
              !.authSkipped = FALSE]

\* the middleware on its own: the request keeps the body it was called with,
\* and either has a response or is handed to the next handler
Authenticate(body, dateNow, outcome) ==
    /\ req.pc \in {"idle", "done", "next"}
    /\ req' = [IdleRequest EXCEPT
                  !.route = "auth", !.auth = body, !.dateNow = dateNow,
                  !.pc = IF outcome.next THEN "next" ELSE "done",
                  !.status = outcome.status, !.error = outcome.error,
                  !.verifiedAddress = outcome.verifiedAddress,
                  !.authSkipped = outcome.authSkipped]
    /\ UNCHANGED <<now, ledgerVars, processorVars, opCount, config, redeemed, client>>

Verdict(x) ==
    verifyPaymentSignature(x.from, x.amount, x.nonce, x.deadline, x.memo,
                           x.signature)

CanTransfer(x) == TransferCanSucceed(x.from, Receiver, x.amount, x.usdcAuth)

RelayFrame ==
    UNCHANGED <<now, ledgerVars, processorVars, opCount, config, client>>

\* the calls the handler has made to the chain, in the order it made them
Rpc(r, calls) == [r EXCEPT !.rpc = @ \o calls]

(***************************************************************************)
(* The settlement of the x402 payment module, for both routes.             *)
(***************************************************************************)
PaymentFailed(r) == Respond(r, 402, "Payment failed")

\* ethers.parseEther('0.001'), in units of 0.001
GasFloor == 1

\* variant: nothing is required of the payment data
MissingPaymentData_none(x) == FALSE

\* !from || !amount || !nonce || !deadline || !signature || !usdcAuth
MissingPaymentData(x) ==
    \/ x.from = ""
    \/ x.amount = 0
    \/ x.nonce = ""
    \/ x.deadline = 0
    \/ x.signature = NoSignature
    \/ x.usdcAuth = NoUsdcAuth

\* variant: the relayer's balance is read and not compared
BelowGasFloor_ignored(relayerBalance) == FALSE

\* relayerBalance < ethers.parseEther('0.001')
BelowGasFloor(relayerBalance) == relayerBalance < GasFloor

\* processPayment of the payment module up to its transaction: validation,
\* the relayer, its balance, then the read-only verification
VerifyStep(relayerBalance) ==
    req' = IF MissingPaymentData(req.payment) \/ ~config.relayer
           THEN PaymentFailed(req)
           ELSE IF BelowGasFloor(relayerBalance)
           THEN PaymentFailed(Rpc(req, <<"getBalance">>))
           ELSE IF Verdict(req.payment) # "true"
           THEN PaymentFailed(Rpc(req, <<"getBalance",
                                         "verifyPaymentSignature">>))
           ELSE [Rpc(req, <<"getBalance", "verifyPaymentSignature">>)
                    EXCEPT !.pc = "settle"]

RelayerBalances == {0, 1}

RelayVerify ==
    /\ req.pc = "verify"
    /\ \E relayerBalance \in RelayerBalances : VerifyStep(relayerBalance)
    /\ UNCHANGED redeemed
    /\ RelayFrame

\* variant: a transaction that was sent is taken as settled
SettlementSucceeded_sent(result) == TRUE

\* await tx.wait() returns the receipt; a reverted call throws instead
SettlementSucceeded(result) == result = "ok"

\* the processPayment transaction and tx.wait(): a call that reverts is
\* refused when it is sent or by its receipt, and gives no success
RelaySettle ==
    /\ req.pc = "settle"
    /\ processPayment(req.payment)
    /\ LET mined == [Rpc(req, <<"processPayment", "wait">>)
                        EXCEPT !.paidViaX402 = TRUE]
       IN  req' = IF ~SettlementSucceeded(plast'.result)
                  THEN PaymentFailed(Rpc(req, <<"processPayment">>))
                  ELSE IF req.route = "generate"
                  THEN [mined EXCEPT !.pc = "generate"]
                  ELSE IF req.route = "purchase"
                  THEN [mined EXCEPT !.pc = "grant"]
                  ELSE Respond(mined, 200, "none")
    /\ UNCHANGED <<now, ledgerVars, config, redeemed, client>>

\* processPayment called with payment data, as the module exports it
ApiProcessPayment(payment) ==
    /\ req.pc \in {"idle", "done"}
    /\ req' = [IdleRequest EXCEPT !.route = "processPayment",
                                  !.pc = "verify", !.payment = payment]
    /\ UNCHANGED redeemed
    /\ RelayFrame

(***************************************************************************)
(* POST /generate                                                          *)
(***************************************************************************)
\* optionalWalletAuth: a signature that is present must be the address's own
WalletAuthPasses(proof) == proof \in {"none", "own"}

\* no signature in the body: req.authSkipped = true, and the handler goes on
AuthSkipped(proof) == proof = "none"

\* the handler up to its first await, on the body of a request
GenerateAccept(address, proof, promptOk, capability, payment) ==
    LET r == [IdleRequest EXCEPT !.route = "generate",
                    !.address = address, !.item = capability,
                    !.actualAccessType = "per-request",
                    !.verifiedAddress = address,
                    !.authSkipped = AuthSkipped(proof),
                    !.peer = req.peer]
        rejected == [IdleRequest EXCEPT !.route = "generate",
                                        !.peer = req.peer]
    IN  IF ~WalletAuthPasses(proof)
        THEN Respond(rejected, 401, "Signature mismatch")
        ELSE IF ~promptOk
        THEN Respond(rejected, 400, "Invalid prompt")
        ELSE IF capability \notin ValidCapabilities
        THEN Respond(rejected, 400, "Invalid capability")
        ELSE IF payment # NoPayment
        THEN [r EXCEPT !.pc = "verify", !.payment = payment]
        ELSE [r EXCEPT !.pc = "check"]

GenerateReceive(address, proof, promptOk, capability, payment) ==
    /\ req.pc \in {"idle", "done"}
    /\ req' = GenerateAccept(address, proof, promptOk, capability, payment)
    /\ UNCHANGED redeemed
    /\ RelayFrame

CreditsToConsume_single(access) == 1

CreditsToConsume(access) == access.creditsUsed

GenerateCheck(failed) ==
    /\ req.pc = "check"
    /\ LET access == checkAccess(req.address, NoRequestId, req.item, failed)
           r == [Rpc(req, <<"checkAccess">>) EXCEPT
                    !.access = access,
                    !.actualAccessType =
                        IF access.allowed THEN access.accessType ELSE @]
       IN  req' = IF ~access.allowed
                  THEN [Respond(r, 402, "Payment Required") EXCEPT
                           !.challenge = create402Response(req.item),
                           !.payment402 = Payment402(req.address, req.item)]
                  ELSE IF /\ access.accessType = "credits"
                          /\ access.creditsUsed > 0
                  THEN [r EXCEPT !.pc = "consume",
                                 !.debit = CreditsToConsume(access)]
                  ELSE [r EXCEPT !.pc = "generate"]
    /\ UNCHANGED redeemed
    /\ RelayFrame

\* consumeCredits: its result is not looked at by the handler
GenerateConsume ==
    /\ req.pc = "consume"
    /\ IF ~config.signer
       THEN /\ req' = [req EXCEPT !.pc = "generate"]
            /\ UNCHANGED <<now, ledgerVars, opCount>>
       ELSE /\ useCredits(Owner, req.address, req.debit)
            /\ req' = [Rpc(req, <<"useCredits">>) EXCEPT
                          !.pc = "generate",
                          !.debitApplied = (last'.result = "ok")]
    /\ UNCHANGED <<processorVars, config, redeemed, client>>

\* variant: a failed generation gives the debited credits back
GenerateRespond_refund ==
    /\ req.pc = "generate"
    /\ \E aiOk \in BOOLEAN :
          /\ req' = IF aiOk THEN Respond(req, 200, "none")
                    ELSE Respond(req, 500, "AI generation failed")
          /\ credits' = IF ~aiOk /\ req.debitApplied
                        THEN [credits EXCEPT ![req.address] = @ + req.debit]
                        ELSE credits
    /\ UNCHANGED <<now, premiumExpiry, usedRequestIds, contractBalance,
                   requestPaid, last, processorVars, opCount, config,
                   redeemed, client>>

\* generateResponse returns or throws
GenerateRespond ==
    /\ req.pc = "generate"
    /\ \E aiOk \in BOOLEAN :
          req' = IF aiOk THEN Respond(req, 200, "none")
                 ELSE Respond(req, 500, "AI generation failed")
    /\ UNCHANGED redeemed
    /\ RelayFrame

(***************************************************************************)
(* POST /purchase                                                          *)
(***************************************************************************)
PurchaseReceive(address, proof, type, packs, payment) ==
    /\ req.pc \in {"idle", "done"}
    /\ LET r == [IdleRequest EXCEPT !.route = "purchase",
                    !.address = address, !.item = type, !.packs = packs,
                    !.verifiedAddress = address,
                    !.authSkipped = AuthSkipped(proof),
                    !.peer = req.peer]
           rejected == [IdleRequest EXCEPT !.route = "purchase",
                                           !.peer = req.peer]
       IN  req' = IF ~WalletAuthPasses(proof)
                  THEN Respond(rejected, 401, "Signature mismatch")
                  ELSE IF type = "none"
                  THEN Respond(rejected, 400, "Purchase type required")
                  ELSE IF payment # NoPayment
                  THEN [r EXCEPT !.pc = "verify", !.payment = payment]
                  ELSE [Respond(r, 402, "Payment Required") EXCEPT
                           !.challenge =
                               createPurchase402Response(type, packs)]
    /\ UNCHANGED redeemed
    /\ RelayFrame

GrantFailed(r) == Respond(r, 500, "Access grant failed")

Granted(r, what) == [Respond(r, 200, "none") EXCEPT !.granted = what]

PurchaseGrant ==
    /\ req.pc = "grant"
    /\ IF req.item \notin {"creditPack", "premium7Days", "premium30Days"}
          \/ ~config.signer
       THEN /\ req' = GrantFailed(req)
            /\ UNCHANGED <<now, ledgerVars, opCount>>
       ELSE /\ IF req.item = "creditPack"
               THEN grantCredits(Owner, req.address,
                                 req.packs * CREDITS_PER_PACK)
               ELSE grantPremium(Owner, req.address,
                                 IF req.item = "premium7Days" THEN 7 ELSE 30)
            /\ req' = IF last'.result = "ok"
                      THEN Granted(Rpc(req, <<last'.op>>), req.item)
                      ELSE GrantFailed(Rpc(req, <<last'.op>>))
    /\ UNCHANGED <<processorVars, config, redeemed, client>>

(***************************************************************************)
(* checkAccess attempt by attempt: checkPremium and getCredits call the     *)
(* contract in a loop of at most three attempts, one second apart.  Each   *)
(* await is a step.  Wall-clock time is in milliseconds.                   *)
(***************************************************************************)
\* variant: a fourth attempt is made
MaxAttempts_four == 3 + 1

\* for (let attempt = 1; attempt <= 3; attempt++)
MaxAttempts == 3

\* setTimeout(r, 1000)
RetryWait == 1000

\* the loop of a read at its first attempt; `failed` names the reads of
\* this check that have failed on every attempt
Read(name, failed) ==
    [name |-> name, attempt |-> 1, inFlight |-> 0, waited |-> 0,
     failed |-> failed]

AccessBegin(address, capability) ==
    /\ req.pc \in {"idle", "done"}
    /\ req' = [IdleRequest EXCEPT !.route = "access", !.pc = "call",
                                  !.address = address, !.item = capability,
                                  !.read = Read("premium", {})]
    /\ UNCHANGED redeemed
    /\ RelayFrame

\* await contract.hasPremium(address) / contract.getCredits(address)
ReadCall ==
    /\ req.pc = "call"
    /\ req' = [Rpc(req, <<req.read.name>>) EXCEPT !.pc = "await",
                                                  !.read.inFlight = @ + 1]
    /\ UNCHANGED redeemed
    /\ RelayFrame

\* the read is over: without premium the credits are read next, otherwise
\* checkAccess has its decision
AfterRead(r, failed) ==
    IF r.read.name = "premium"
          /\ ~checkPremium(r.address, "premium" \in failed)
    THEN [r EXCEPT !.pc = "call", !.read = Read("credits", failed)]
    ELSE [r EXCEPT !.pc = "done", !.read.failed = failed,
                   !.access = checkAccess(r.address, NoRequestId, r.item,
                                          failed)]

\* the call returns
ReadReturn ==
    /\ req.pc = "await"
    /\ req' = AfterRead([req EXCEPT !.read.inFlight = @ - 1],
                        req.read.failed)
    /\ UNCHANGED redeemed
    /\ RelayFrame

\* the call throws: another attempt after the wait, or the loop is left
ReadThrow ==
    /\ req.pc = "await"
    /\ LET r == [req EXCEPT !.read.inFlight = @ - 1]
       IN  req' = IF req.read.attempt < MaxAttempts
                  THEN [r EXCEPT !.pc = "sleep"]
                  ELSE AfterRead(r, req.read.failed \cup {req.read.name})
    /\ UNCHANGED redeemed
    /\ RelayFrame

\* the timer of the wait fires
ReadWake ==
    /\ req.pc = "sleep"
    /\ req' = [req EXCEPT !.pc = "call", !.read.attempt = @ + 1,
                          !.read.waited = @ + RetryWait]
    /\ UNCHANGED redeemed
    /\ RelayFrame

(***************************************************************************)
(* checkAccess called with a callId, as the service exports it.            *)
(***************************************************************************)
ApiCheckAccess(address, requestId, capability, failed) ==
    /\ req.pc \in {"idle", "done"}
    /\ LET access == checkAccess(address, requestId, capability, failed)
           perRequest == access.accessType = "per-request"
       IN  /\ req' = [Respond(IdleRequest, 0, "none") EXCEPT
                         !.route = "checkAccess", !.access = access,
                         !.repeat = perRequest /\ requestId \in redeemed]
           /\ redeemed' = IF perRequest THEN redeemed \cup {requestId}
                          ELSE redeemed
    /\ RelayFrame


RelayIdle ==
    /\ req = IdleRequest
    /\ config = [contract |-> TRUE, signer |-> TRUE, relayer |-> TRUE]
    /\ redeemed = {}
    /\ client = IdleClient

(***************************************************************************)
(* Block time                                                              *)
(***************************************************************************)
\* eight days pass
Tick ==
    /\ now + 8 * ONE_DAY <= MaxTime
    /\ now' = now + 8 * ONE_DAY
    /\ UNCHANGED <<premiumExpiry, credits, usedRequestIds, contractBalance,
                   requestPaid, opCount, last, processorVars, relayVars>>

(***************************************************************************)
(* The ledger on its own: any account calls any entry point.               *)
(***************************************************************************)
ProcessorIdle ==
    /\ usedNonces = {}
    /\ paymentProcessed = <<>>
    /\ tokenBalance = [a \in Addr |-> 0]
    /\ tokenAuthUsed = {}
    /\ tokenTransfers = <<>>
    /\ plast = [op |-> "deploy", result |-> "ok", auth |-> NoInput,
                input |-> NoInput,
                resubmitted |-> FALSE]

LedgerFresh ==
    /\ premiumExpiry = [a \in Addr |-> 0]
    /\ credits = [a \in Addr |-> 0]
    /\ usedRequestIds = [i \in RequestIds |-> FALSE]
    /\ contractBalance = 0
    /\ requestPaid = <<>>
    /\ last = Outcome("deploy", "ok")

LedgerInit ==
    /\ now = 1
    /\ opCount = 0
    /\ LedgerFresh
    /\ ProcessorIdle
    /\ RelayIdle

\* what the callers pass: each price with one unit under and one unit over,
\* the two durations and another, no pack, one pack and three, and for the
\* owner's grant also a duration that overflows the word; a call that is
\* rejected before its value is read is made with one value
RequestValues == 0..2
ProDurations == {7, 30, 1}
ProValues == {9, 10, 11, 29, 30, 31}
PackCounts == {0, 1, 3}
PackValues == {7, 8, 9, 24}
GrantDurations == {7, 30, UintMod - 1}
GrantAmounts == {5}
UseAmounts == {0, 3, 5}

CallPayPerRequest ==
    /\ \E s \in Addr, i \in RequestIds, v \in RequestValues :
          payPerRequest(s, i, v)
    /\ UNCHANGED <<processorVars, relayVars>>

CallBuyPro ==
    /\ \E s \in Addr, d \in ProDurations, v \in ProValues :
          /\ d \notin {7, 30} => v = PREMIUM_7_DAYS_PRICE
          /\ buyPro(s, d, v)
    /\ UNCHANGED <<processorVars, relayVars>>

CallBuyCredits ==
    /\ \E s \in Addr, p \in PackCounts, v \in PackValues :
          /\ p = 0 => v = CREDIT_PACK_PRICE
          /\ buyCredits(s, p, v)
    /\ UNCHANGED <<processorVars, relayVars>>

CallGrantPremium ==
    /\ \E s \in Addr, u \in Addr, d \in GrantDurations :
          grantPremium(s, u, d)
    /\ UNCHANGED <<processorVars, relayVars>>

CallGrantCredits ==
    /\ \E s \in Addr, u \in Addr, a \in GrantAmounts : grantCredits(s, u, a)
    /\ UNCHANGED <<processorVars, relayVars>>

CallUseCredit ==
    /\ \E s \in Addr, u \in Addr : useCredit(s, u)
    /\ UNCHANGED <<processorVars, relayVars>>

CallUseCredits ==
    /\ \E s \in Addr, u \in Addr, a \in UseAmounts : useCredits(s, u, a)
    /\ UNCHANGED <<processorVars, relayVars>>

CallWithdraw ==
    /\ \E s \in Addr, ok \in BOOLEAN : withdraw(s, ok)
    /\ UNCHANGED <<processorVars, relayVars>>

LedgerNext ==
    \/ CallPayPerRequest
    \/ CallBuyPro
    \/ CallBuyCredits
    \/ CallGrantPremium
    \/ CallGrantCredits
    \/ CallUseCredit
    \/ CallUseCredits
    \/ CallWithdraw
    \/ Tick

SpecLedger == LedgerInit /\ [][LedgerNext]_vars

(***************************************************************************)
(* buyCredits with any pack count: packs is a uint256 that the caller      *)
(* chooses, the largest counts included, and the value is whatever the     *)
(* caller sends.                                                           *)
(***************************************************************************)
\* one pack, three, and the counts whose price is a multiple of the word
AnyPackCounts ==
    {1, 3, UintMod \div CREDIT_PACK_PRICE, 2 * (UintMod \div CREDIT_PACK_PRICE)}

AnyPackValues == {0, CREDIT_PACK_PRICE, 3 * CREDIT_PACK_PRICE}

CallBuyCreditsAnyCount ==
    /\ \E s \in Addr, p \in AnyPackCounts, v \in AnyPackValues :
          buyCredits(s, p, v)
    /\ UNCHANGED <<processorVars, relayVars>>

PacksNext ==
    \/ CallBuyCreditsAnyCount
    \/ CallUseCredit
    \/ CallUseCredits
    \/ CallWithdraw

SpecPacks == LedgerInit /\ [][PacksNext]_vars

(***************************************************************************)
(* The processor on its own: anyone submits any authorization; token       *)
(* holders receive tokens from elsewhere.                                  *)
(***************************************************************************)
\* a holder receives 0.03 USDC
TokenFund(a) ==
    /\ Mined
    /\ tokenBalance' = [tokenBalance EXCEPT ![a] = @ + 3]
    /\ UNCHANGED <<usedNonces, paymentProcessed, tokenAuthUsed, tokenTransfers,
                   plast>>

ProcessorInit ==
    /\ now = 1
    /\ opCount = 0
    /\ LedgerFresh
    /\ usedNonces = {}
    /\ paymentProcessed = <<>>
    /\ tokenBalance \in [Addr -> {0, 3}]
    /\ tokenAuthUsed = {}
    /\ tokenTransfers = <<>>
    /\ plast = [op |-> "deploy", result |-> "ok", auth |-> NoInput,
                input |-> NoInput,
                resubmitted |-> FALSE]
    /\ RelayIdle

CallProcessPayment ==
    /\ \E input \in PaymentInputs : processPayment(input)
    /\ UNCHANGED <<now, ledgerVars, relayVars>>

CallVerify ==
    /\ \E input \in PaymentInputs : callVerifyPaymentSignature(input)
    /\ UNCHANGED <<now, ledgerVars, relayVars>>

CallTokenFund ==
    /\ \E a \in Addr : TokenFund(a)
    /\ UNCHANGED <<now, ledgerVars, relayVars>>

ProcessorNext ==
    \/ CallProcessPayment
    \/ CallVerify
    \/ CallTokenFund
    \/ Tick

SpecProcessor == ProcessorInit /\ [][ProcessorNext]_vars

(***************************************************************************)
(* The relay in front of a ledger that holds some premium and credits for  *)
(* one account, with a funded token holder.                                *)
(***************************************************************************)
OnlyAlice(v) == [a \in Addr |-> IF a = "alice" THEN v ELSE 0]

\* the chain that the relay is started in front of
RelayChain ==
    /\ now = 1
    /\ opCount = 0
    /\ premiumExpiry \in {OnlyAlice(0), OnlyAlice(8 * ONE_DAY)}
    /\ credits \in {OnlyAlice(0), OnlyAlice(3)}
    /\ usedRequestIds = [i \in RequestIds |-> FALSE]
    /\ contractBalance = 0
    /\ requestPaid = <<>>
    /\ last = Outcome("deploy", "ok")
    /\ usedNonces = {}
    /\ paymentProcessed = <<>>
    /\ tokenBalance = OnlyAlice(10)
    /\ tokenAuthUsed = {}
    /\ tokenTransfers = <<>>
    /\ plast = [op |-> "deploy", result |-> "ok", auth |-> NoInput,
                input |-> NoInput, resubmitted |-> FALSE]

RelayInit ==
    /\ RelayChain
    /\ RelayIdle

RelayAmounts == {0, 1, 8}

RelayAuthorization(address, amount) ==
    Authorization(address, amount, "n1", ValidBefore - 1, "m1")

\* no payment, a well signed payment of each amount, one whose token
\* authorization is signed by somebody else, and one with no nonce
RelayPayments(address) ==
    {NoPayment}
    \cup {PaymentInput(RelayAuthorization(address, a),
                       GoodSignature(RelayAuthorization(address, a)),
                       UsdcAuth(address, a, address, "t1")) :
             a \in RelayAmounts}
    \cup {PaymentInput(RelayAuthorization(address, 1),
                       GoodSignature(RelayAuthorization(address, 1)),
                       UsdcAuth(address, 1, Owner, "t2"))}
    \cup {PaymentInput(Authorization(address, 1, "", ValidBefore - 1, "m1"),
                       GoodSignature(RelayAuthorization(address, 1)),
                       UsdcAuth(address, 1, address, "t1"))}

\* payment data that lacks one field, and payment data that lacks none
IncompletePayments ==
    LET auth == RelayAuthorization("alice", 1)
        whole == PaymentInput(auth, GoodSignature(auth),
                              UsdcAuth("alice", 1, "alice", "t1"))
    IN  {whole,
         [whole EXCEPT !.from = ""],
         [whole EXCEPT !.amount = 0],
         [whole EXCEPT !.nonce = ""],
         [whole EXCEPT !.deadline = 0],
         [whole EXCEPT !.signature = NoSignature],
         [whole EXCEPT !.usdcAuth = NoUsdcAuth]}

WalletProofs == {"none", "own", "foreign"}
Callers == {"alice"}

\* the bodies of /generate; what is rejected is rejected whatever follows
PostGenerate ==
    /\ req.pc \in {"idle", "done"}
    /\ \E address \in Callers, proof \in WalletProofs, promptOk \in BOOLEAN,
          capability \in ValidCapabilities \cup {"audio"} :
           \E payment \in RelayPayments(address) :
               /\ (~WalletAuthPasses(proof) \/ ~promptOk
                       \/ capability \notin ValidCapabilities)
                      => payment = NoPayment
               /\ ~WalletAuthPasses(proof) => promptOk
               /\ (~WalletAuthPasses(proof) \/ ~promptOk)
                      => capability = "text"
               /\ GenerateReceive(address, proof, promptOk, capability,
                                  payment)

\* the bodies of /purchase; packs is left to its default where it is not used
PostPurchase ==
    /\ req.pc \in {"idle", "done"}
    /\ \E address \in Callers, proof \in WalletProofs, packs \in 1..2,
          type \in {"creditPack", "premium7Days", "premium30Days", "gift",
                    "none"} :
           \E payment \in RelayPayments(address) :
               /\ (~WalletAuthPasses(proof) \/ type = "none")
                      => payment = NoPayment
               /\ ~WalletAuthPasses(proof) => type = "creditPack"
               /\ type # "creditPack" => packs = 1
               /\ PurchaseReceive(address, proof, type, packs, payment)

CallCheckAccess ==
    /\ req.pc \in {"idle", "done"}
    /\ \E address \in Callers, requestId \in RequestIds \cup {NoRequestId},
          capability \in ValidCapabilities \cup {"audio"} :
           \E failed \in ReadFailures(address, requestId, capability) :
               ApiCheckAccess(address, requestId, capability, failed)

GenerateAccess ==
    /\ req.pc = "check"
    /\ \E failed \in ReadFailures(req.address, NoRequestId, req.item) :
          GenerateCheck(failed)

\* any account pays for the callId
UserPayPerRequest ==
    /\ \E s \in Addr : payPerRequest(s, "id1", REQUEST_PRICE)
    /\ UNCHANGED <<processorVars, relayVars>>

CallRelayProcessPayment ==
    /\ req.pc \in {"idle", "done"}
    /\ \E payment \in IncompletePayments : ApiProcessPayment(payment)

RelayNext ==
    \/ PostGenerate
    \/ CallRelayProcessPayment
    \/ GenerateAccess
    \/ GenerateConsume
    \/ GenerateRespond
    \/ PostPurchase
    \/ PurchaseGrant
    \/ RelayVerify
    \/ RelaySettle
    \/ Tick

SpecRelay == RelayInit /\ [][RelayNext]_vars

(***************************************************************************)
(* The access check on its own: checkAccess called with or without a       *)
(* callId, and by /generate for requests that carry no payment, while the  *)
(* account pays for callIds and time passes.                               *)
(***************************************************************************)
PostGenerateUnpaid ==
    /\ req.pc \in {"idle", "done"}
    /\ \E address \in Callers, capability \in ValidCapabilities :
          GenerateReceive(address, "none", TRUE, capability, NoPayment)

AccessNext ==
    \/ CallCheckAccess
    \/ PostGenerateUnpaid
    \/ GenerateAccess
    \/ GenerateConsume
    \/ GenerateRespond
    \/ UserPayPerRequest
    \/ Tick

SpecAccess == RelayInit /\ [][AccessNext]_vars

(***************************************************************************)
(* The access check in a relay started with or without the address of the  *)
(* ledger contract, and with or without the key that signs its debits.     *)
(***************************************************************************)
\* initBlockchain: the signer is made only when the contract is
Configs ==
    {[contract |-> c, signer |-> k, relayer |-> TRUE] :
        c \in BOOLEAN, k \in BOOLEAN} \ {[contract |-> FALSE, signer |-> TRUE,
                                           relayer |-> TRUE]}

ConfiguredInit ==
    /\ RelayChain
    /\ req = IdleRequest
    /\ config \in Configs
    /\ redeemed = {}
    /\ client = IdleClient

SpecConfigured == ConfiguredInit /\ [][AccessNext]_vars

(***************************************************************************)
(* create402Response on its own: any identifier that /generate can mint,   *)
(* any capability, built at any time.                                      *)
(***************************************************************************)
MintTimes == {1000, 2000}
BuildTimes == {1000, 1999, 2000, 3500}

ChallengeRequestIds ==
    {GenerateRequestId(a, t) : a \in Addr, t \in MintTimes}

CallCreate402Response ==
    /\ req.pc \in {"idle", "done"}
    /\ \E requestId \in ChallengeRequestIds,
          capability \in ValidCapabilities \cup {"audio"},
          dateNow \in BuildTimes :
          req' = [IdleRequest EXCEPT
                     !.route = "create402Response", !.pc = "done",
                     !.status = 402, !.dateNow = dateNow,
                     !.challenge = Challenge402(requestId, capability,
                                                dateNow)]
    /\ UNCHANGED redeemed
    /\ RelayFrame

SpecChallenge == RelayInit /\ [][CallCreate402Response]_vars

(***************************************************************************)
(* The access check of /generate with reads that may fail.  A pending call *)
(* returns or throws, and a timer fires.                                   *)
(***************************************************************************)
CallAccessBegin ==
    /\ req.pc \in {"idle", "done"}
    /\ \E address \in Callers, capability \in ValidCapabilities \cup {"audio"} :
          AccessBegin(address, capability)

ReadStep ==
    \/ ReadCall
    \/ ReadReturn
    \/ ReadThrow
    \/ ReadWake

ReadsNext ==
    \/ CallAccessBegin
    \/ ReadStep

SpecReads == RelayInit /\ [][ReadsNext]_vars /\ WF_vars(ReadStep)

(***************************************************************************)
(* Two /generate requests in the relay at once: the handler of one runs    *)
(* while the other is suspended at one of its awaits.                      *)
(***************************************************************************)
\* the event loop resumes the other handler
Yield ==
    /\ req.peer.pc # "none"
    /\ req' = [req.peer EXCEPT !.peer = [req EXCEPT !.peer = NoPeer]]
    /\ UNCHANGED redeemed
    /\ RelayFrame

RaceNext ==
    \/ PostGenerateUnpaid
    \/ GenerateAccess
    \/ GenerateConsume
    \/ GenerateRespond
    \/ Yield

SpecRace == RelayInit /\ [][RaceNext]_vars

(***************************************************************************)
(* Two paid requests in the relay at once: the same signed payment, or     *)
(* another one of the same account, is presented to /generate and to       *)
(* /purchase while an earlier request is suspended at one of its awaits.   *)
(***************************************************************************)
\* two payments that alice has signed, each with its token authorization
SignedPayments ==
    {PaymentInput(auth, GoodSignature(auth),
                  UsdcAuth("alice", 1, "alice", tokenNonce)) :
        <<auth, tokenNonce>> \in
            {<<Authorization("alice", 1, "n1", ValidBefore - 1, "m1"), "t1">>,
             <<Authorization("alice", 1, "n2", ValidBefore - 1, "m1"), "t2">>}}

PostGeneratePaid ==
    /\ req.pc \in {"idle", "done"}
    /\ \E payment \in SignedPayments :
          GenerateReceive("alice", "none", TRUE, "text", payment)

PostPurchasePaid ==
    /\ req.pc \in {"idle", "done"}
    /\ \E payment \in SignedPayments :
          PurchaseReceive("alice", "none", "creditPack", 1, payment)

ReplayNext ==
    \/ PostGeneratePaid
    \/ PostPurchasePaid
    \/ RelayVerify
    \/ RelaySettle
    \/ GenerateRespond
    \/ PurchaseGrant
    \/ Yield

SpecReplay == RelayInit /\ [][ReplayNext]_vars

(***************************************************************************)
(* End to end: frontend/src/utils/x402Client.js in front of /generate.     *)
(* useAIRequest.sendRequest calls X402Client.fetch once, with a body of    *)
(* address, prompt and capability; each await of fetch is a step.  The     *)
(* wallet may refuse a signature that it is asked for.                     *)
(***************************************************************************)
\* response.ok
ResponseOk(status) == status >= 200 /\ status <= 299

\* throw new Error(...): the call of fetch is over
Thrown(c) == [c EXCEPT !.pc = "thrown"]

\* return { success, status, data }: the call of fetch is over
Returned(c, status) ==
    [c EXCEPT !.pc = "returned", !.status = status,
              !.success = ResponseOk(status)]

\* const response = await window.fetch(url, ...), by sendRequest
ClientFetch ==
    /\ client.pc \in {"idle", "returned", "thrown"}
    /\ req.pc \in {"idle", "done"}
    /\ \E address \in Callers, capability \in ValidCapabilities :
          /\ client' = [IdleClient EXCEPT !.pc = "first",
                                          !.address = address,
                                          !.capability = capability,
                                          !.sends = 1]
          /\ req' = GenerateAccept(address, "none", TRUE, capability,
                                   NoPayment)
    /\ UNCHANGED <<now, ledgerVars, processorVars, opCount, config, redeemed>>

\* the first response: anything but a 402 is returned as it is; a 402
\* without payment details throws before anything is signed
ClientFirstResponse ==
    /\ client.pc = "first"
    /\ req.pc = "done"
    /\ LET c == [client EXCEPT !.firstStatus = req.status]
       IN  client' = IF req.status # 402 THEN Returned(c, req.status)
                     ELSE IF req.payment402 = NoChallenge THEN Thrown(c)
                     ELSE [c EXCEPT !.pc = "signPayment",
                                    !.payment = req.payment402]
    /\ UNCHANGED <<now, ledgerVars, processorVars, opCount, req, config,
                   redeemed>>

\* signPaymentAuthorization: signer.signTypedData(domain, types, value) over
\* the amount, nonce, deadline and memo of the 402 response
SignedPayment(c) ==
    Sign(c.address, PaymentDigest(ThisDomain, c.address, c.payment.amount,
                                  c.payment.nonce, c.payment.deadline,
                                  c.payment.memo))

ClientSignPayment ==
    /\ client.pc = "signPayment"
    /\ \E approved \in BOOLEAN :
          client' = IF ~approved THEN Thrown(client)
                    ELSE [client EXCEPT !.pc = "signUsdc",
                                        !.paymentSignature = SignedPayment(client),
                                        !.paymentSignatures = @ + 1]
    /\ UNCHANGED <<now, ledgerVars, processorVars, opCount, req, config,
                   redeemed>>

\* signUSDCAuthorization at the second `seconds` of the clock: the receiver
\* and the amount of the 402 response, valid from a minute ago for an hour,
\* under the nonce of the payment; the window is held in days of block time
SignedUsdcAuth(c, seconds) ==
    LET validAfter == DaysFloor(seconds - 60)
        validBefore == DaysCeil(seconds + 3600)
    IN  [validAfter |-> validAfter, validBefore |-> validBefore,
         nonce |-> c.payment.nonce,
         sig |-> Sign(c.address,
                      TransferDigest(c.address, Receiver, c.payment.amount,
                                     validAfter, validBefore,
                                     c.payment.nonce))]

ClientSignUsdc ==
    /\ client.pc = "signUsdc"
    /\ \E approved \in BOOLEAN :
          client' = IF ~approved THEN Thrown(client)
                    ELSE [client EXCEPT
                             !.pc = "resend",
                             !.usdcAuth = SignedUsdcAuth(client,
                                                         DateNow \div 1000),
                             !.usdcSignatures = @ + 1]
    /\ UNCHANGED <<now, ledgerVars, processorVars, opCount, req, config,
                   redeemed>>

\* the body of the retry: the original body with paymentSignature,
\* usdcAuth and paymentData
RetryPayment(c) ==
    PaymentInput(Authorization(c.address, c.payment.amount, c.payment.nonce,
                               c.payment.deadline, c.payment.memo),
                 c.paymentSignature, c.usdcAuth)

\* const retryResponse = await window.fetch(url, ...)
ClientResend ==
    /\ client.pc = "resend"
    /\ req.pc \in {"idle", "done"}
    /\ client' = [client EXCEPT !.pc = "second", !.sends = @ + 1]
    /\ req' = GenerateAccept(client.address, "none", TRUE, client.capability,
                             RetryPayment(client))
    /\ UNCHANGED <<now, ledgerVars, processorVars, opCount, config, redeemed>>

\* variant: a failed retry asks for the signatures again
AfterFailedRetry_again(c, status) ==
    [c EXCEPT !.pc = "signPayment", !.status = status]

\* if (!retryResponse.ok) throw new Error(...)
AfterFailedRetry(c, status) == Thrown([c EXCEPT !.status = status])

ClientSecondResponse ==
    /\ client.pc = "second"
    /\ req.pc = "done"
    /\ client' = IF ~ResponseOk(req.status)
                 THEN AfterFailedRetry(client, req.status)
                 ELSE Returned(client, req.status)
    /\ UNCHANGED <<now, ledgerVars, processorVars, opCount, req, config,
                   redeemed>>

EndToEndNext ==
    \/ ClientFetch
    \/ ClientFirstResponse
    \/ ClientSignPayment
    \/ ClientSignUsdc
    \/ ClientResend
    \/ ClientSecondResponse
    \/ GenerateAccess
    \/ GenerateConsume
    \/ GenerateRespond
    \/ RelayVerify
    \/ RelaySettle
    \/ Tick

SpecEndToEnd == RelayInit /\ [][EndToEndNext]_vars

(***************************************************************************)
(* The authentication middleware on its own: any body at any time.         *)
(***************************************************************************)
SignedAts == {4, 5}
DateNows == {10, 11}

AuthSignatures ==
    {NoSignature, Malformed}
    \cup {WalletSign(w, Message(t)) : w \in Wallets, t \in SignedAts}

AuthBodies ==
    {AuthBody(a, sg, m, ts) :
        a \in Spellings \cup {Absent}, sg \in AuthSignatures,
        m \in {NoMessage} \cup {Message(t) : t \in SignedAts},
        ts \in {0} \cup SignedAts}

CallVerifyWalletAuth ==
    /\ req.pc \in {"idle", "done", "next"}
    /\ \E body \in AuthBodies, dateNow \in DateNows :
          Authenticate(body, dateNow, verifyWalletAuth(body, dateNow))

CallOptionalWalletAuth ==
    /\ req.pc \in {"idle", "done", "next"}
    /\ \E body \in AuthBodies, dateNow \in DateNows :
          Authenticate(body, dateNow, optionalWalletAuth(body, dateNow))

AuthInit == LedgerInit

AuthNext ==
    \/ CallVerifyWalletAuth
    \/ CallOptionalWalletAuth

SpecAuth == AuthInit /\ [][AuthNext]_vars

(***************************************************************************)
(* Properties of the relay.                                                *)
(***************************************************************************)
Capabilities == ValidCapabilities \cup {"audio"}

\* the credit cost of a capability: text 1, image 3, video 5, otherwise 1
Cost(capability) ==
    CASE capability = "text" -> 1
      [] capability = "image" -> 3
      [] capability = "video" -> 5
      [] OTHER -> 1

\* the decision in strict priority order, first match wins
ReferenceTier(premiumActive, creditBalance, cost, supplied, reportedUsed) ==
    IF premiumActive THEN "premium"
    ELSE IF creditBalance >= cost THEN "credits"
    ELSE IF supplied /\ reportedUsed THEN "per-request"
    ELSE "deny"

\* what the ledger reports of an account and a callId, a read that has failed
\* on every attempt reporting no premium, no credits, an unused callId
ReferenceOnLedger(address, requestId, capability, failed) ==
    ReferenceTier(hasPremium(address) /\ "premium" \notin failed,
                  IF "credits" \in failed THEN 0 ELSE getCredits(address),
                  Cost(capability),
                  requestId # NoRequestId,
                  /\ requestId # NoRequestId
                  /\ "payment" \notin failed
                  /\ isRequestIdUsed(requestId))

DecidedAs(access, tier) ==
    IF tier = "deny" THEN ~access.allowed /\ access.pricing
    ELSE access.allowed /\ access.accessType = tier /\ ~access.pricing

\* C4: checkAccess decides in strict priority order (premium, then credits
\* that cover the cost, then a supplied callId that the ledger reports used,
\* then deny with the pricing table): on every ledger state its result is the
\* one of the reference function, called with a callId or, by /generate,
\* without one.
C4_StrictPriority ==
    [][/\ (req'.route = "checkAccess" /\ RelayFrame)
          => \A a \in Callers, id \in RequestIds \cup {NoRequestId},
                c \in Capabilities, failed \in SUBSET ReadNames :
                \/ DecidedAs(req'.access,
                             ReferenceOnLedger(a, id, c, failed))
                \/ ~ApiCheckAccess(a, id, c, failed)
       /\ req.pc = "check"
          => \A failed \in SUBSET ReadNames :
                GenerateCheck(failed)
                    => DecidedAs(req'.access,
                                 ReferenceOnLedger(req.address, NoRequestId,
                                                   req.item, failed))]_vars

\* an account with premium and with credits has been resolved as premium
C4_Witness ==
    /\ req.route = "checkAccess"
    /\ req.access.allowed
    /\ req.access.accessType = "premium"
    /\ hasPremium("alice")
    /\ getCredits("alice") >= CreditCosts.image

\* a tier matches on the ledger: premium is active, the credits cover the
\* cost, or the callId that is supplied is reported used
TierMatched(address, requestId, capability) ==
    \/ hasPremium(address)
    \/ getCredits(address) >= Cost(capability)
    \/ requestId # NoRequestId /\ isRequestIdUsed(requestId)

\* C33, as stated: checkAccess allows only when a tier matches on the
\* ledger, whether or not a ledger contract is configured.
C33_AllowedOnlyOnLedgerTier ==
    [][(req'.route = "checkAccess" /\ RelayFrame)
          => \A a \in Callers, id \in RequestIds \cup {NoRequestId},
                c \in Capabilities :
                \/ req'.access.allowed => TierMatched(a, id, c)
                \/ \A failed \in SUBSET ReadNames :
                      ~ApiCheckAccess(a, id, c, failed)]_vars

\* C33, amended: with a ledger contract configured, checkAccess, called
\* with a callId or by /generate without one, allows only when a tier
\* matches on the ledger and otherwise denies with the pricing table;
\* with no contract configured it allows every request, as "demo".
C33_AllowedOnTierOrDemo ==
    [][/\ (req'.route = "checkAccess" /\ RelayFrame)
          => \A a \in Callers, id \in RequestIds \cup {NoRequestId},
                c \in Capabilities :
                \/ IF config.contract
                   THEN /\ req'.access.allowed => TierMatched(a, id, c)
                        /\ ~req'.access.allowed => req'.access.pricing
                        /\ req'.access.accessType # "demo"
                   ELSE /\ req'.access.allowed
                        /\ req'.access.accessType = "demo"
                \/ \A failed \in SUBSET ReadNames :
                      ~ApiCheckAccess(a, id, c, failed)
       /\ (req.pc = "check" /\ req'.pc # "check")
          => IF config.contract
             THEN /\ req'.access.allowed
                      => TierMatched(req.address, NoRequestId, req.item)
                  /\ req'.access.accessType # "demo"
             ELSE /\ req'.access.allowed
                  /\ req'.access.accessType = "demo"]_vars

\* with no ledger contract configured, an account without premium and
\* without credits that supplies no callId has been allowed
C33_Witness ==
    /\ req.route = "checkAccess"
    /\ ~config.contract
    /\ req.access.allowed
    /\ req.access.accessType = "demo"
    /\ ~hasPremium("alice")
    /\ getCredits("alice") = 0
    /\ \A i \in RequestIds : ~isRequestIdUsed(i)

\* C34: a request that has been served under the credits tier had its debit
\* applied on the ledger: when the debit reverted, or no signer was there to
\* send it, the request is not served.
C34_ServedOnlyAfterDebit ==
    (/\ req.route = "generate"
     /\ req.pc = "done"
     /\ req.status = 200
     /\ req.actualAccessType = "credits")
        => req.debitApplied

\* C36: a /purchase request whose payment was settled ends with the grant
\* of what was bought: it is answered 200 with the grant made.
C36_SettledPurchaseIsGranted ==
    (/\ req.route = "purchase"
     /\ req.pc = "done"
     /\ req.paidViaX402)
        => (req.status = 200 /\ req.granted # "none")

\* the callId was paid for by the account
PaidBy(requestId, account) ==
    \E k \in 1..Len(requestPaid) :
        /\ requestPaid[k].requestId = requestId
        /\ requestPaid[k].user = account

\* C38: checkAccess resolves an address as per-request only on a callId
\* that this same address paid for.
C38_PerRequestForThePayer ==
    [][(/\ req'.route = "checkAccess"
        /\ RelayFrame
        /\ req'.access.accessType = "per-request")
          => \A a \in Callers, id \in RequestIds, c \in Capabilities :
                \/ PaidBy(id, a)
                \/ \A failed \in SUBSET ReadNames :
                      ~ApiCheckAccess(a, id, c, failed)]_vars

\* C5: the debit that /generate sends for a request is exactly the cost of
\* the requested capability when the request is resolved under credits, and
\* a request resolved under premium or per-request, when it is served, has
\* sent no debit; no credit leaves an account but by such a debit.
C5_DebitIsTheCost ==
    [][/\ GenerateConsume
          => /\ req.actualAccessType = "credits"
             /\ req.debit = Cost(req.item)
             /\ last'.op = "useCredits"
             /\ \/ last'.result # "ok" /\ credits' = credits
                \/ /\ last'.result = "ok"
                   /\ credits' = [credits EXCEPT
                                     ![req.address] = @ - Cost(req.item)]
       /\ (GenerateRespond /\ req'.status = 200)
          => IF req.actualAccessType = "credits"
             THEN req.debit = Cost(req.item)
             ELSE /\ req.actualAccessType \in {"premium", "per-request"}
                  /\ req.debit = 0
                  /\ ~req.debitApplied
       /\ (\E a \in Addr : credits'[a] < credits[a]) => GenerateConsume]_vars

\* an image request has been served under credits after a debit of 3
C5_Witness ==
    /\ req.route = "generate"
    /\ req.status = 200
    /\ req.actualAccessType = "credits"
    /\ req.debit = CreditCosts.image
    /\ req.debitApplied
    /\ last = Outcome("useCredits", "ok")

\* C6: a used callId gives the per-request tier to one request only: a
\* second access check presenting the same callId is not allowed on it.
C6_AllowedExactlyOnce ==
    ~(/\ req.route = "checkAccess"
      /\ req.access.allowed
      /\ req.access.accessType = "per-request"
      /\ req.repeat)

\* C7: a payment that the relay has settled is rewarded (the request served,
\* the credits or the premium granted) only if its amount is the configured
\* price of what is rewarded.
C7_RewardedPaymentIsThePrice ==
    [][/\ (GenerateRespond /\ req.paidViaX402 /\ req'.status = 200)
          => req.payment.amount = create402Response(req.item)
       /\ (PurchaseGrant /\ req'.status = 200)
          => req.payment.amount
                 = createPurchase402Response(req.item, req.packs)]_vars


\* C15, as stated: a request that is served under the premium or the
\* credits tier, and every debit of credits, is for an address whose wallet
\* was proven by a signature that the middleware verified; a request whose
\* authentication was skipped is served on no premium and debits no credits.
C15_TierServedOnProvenWallet ==
    [][/\ GenerateConsume => ~req.authSkipped
       /\ (/\ GenerateRespond
           /\ req'.status = 200
           /\ req.actualAccessType \in {"premium", "credits"})
             => ~req.authSkipped]_vars

\* the other request has been granted under the credits tier on the same
\* account and its debit has not been sent yet
PeerDebitPending ==
    /\ req.peer.pc = "consume"
    /\ req.peer.address = req.address

\* C21: nothing is reserved between the check and the debit. The check of a
\* request is decided on the ledger balance as it stands while the other
\* request of the same account, granted under credits, has not debited yet;
\* and a request granted under credits goes on to be generated whatever its
\* debit returns, the ledger keeping the balance at or above zero. So two
\* requests can both be granted under credits on a balance that covers one.
C21_NothingReservedBeforeDebit ==
    [][/\ (req.pc = "check" /\ PeerDebitPending)
          => \A failed \in SUBSET ReadNames :
                GenerateCheck(failed)
                    => DecidedAs(req'.access,
                                 ReferenceOnLedger(req.address, NoRequestId,
                                                   req.item, failed))
       /\ GenerateConsume
          => /\ req'.pc = "generate"
             /\ req'.actualAccessType = "credits"
             /\ \A a \in Addr : credits'[a] >= 0]_vars

\* two image requests have both been served under credits on a balance of 3:
\* one debit of 3 was applied, the other was refused by the ledger
C21_Witness ==
    /\ req.status = 200 /\ req.peer.status = 200
    /\ req.actualAccessType = "credits"
    /\ req.peer.actualAccessType = "credits"
    /\ req.debit = CreditCosts.image /\ req.peer.debit = CreditCosts.image
    /\ req.debitApplied # req.peer.debitApplied
    /\ credits["alice"] = 0
    /\ last = Outcome("useCredits", "NoCreditsAvailable")

\* the payment data lacks one of the six required fields
LacksField(x) ==
    \/ \E f \in {"from", "nonce"} : x[f] = ""
    \/ \E f \in {"amount", "deadline"} : x[f] = 0
    \/ x.signature.kind = "absent"
    \/ x.usdcAuth.nonce = "absent"

\* payment data that lacks nothing and verifies
WholePayment(a) ==
    PaymentInput(RelayAuthorization(a, 1),
                 GoodSignature(RelayAuthorization(a, 1)),
                 UsdcAuth(a, 1, a, "t1"))

BalanceRead == <<"getBalance">>
BalanceReadThenVerify == <<"getBalance", "verifyPaymentSignature">>

\* C22: processPayment of the relay reads the relayer's balance, then
\* verifies read-only, then submits the settlement and waits for it. Below
\* the floor of 0.001 it stops after the balance read; when the verification
\* is false or fails it stops after the verification; the settlement is
\* submitted only from there, and the request counts as paid only in the step
\* in which the settlement is mined, after the wait.
C22_VerifyBeforeSettle ==
    [][/\ (req.pc = "verify" /\ ~LacksField(req.payment))
          => \A b \in RelayerBalances :
                VerifyStep(b)
                    => /\ b < GasFloor
                            => /\ req'.pc = "done" /\ req'.status = 402
                               /\ req'.rpc = BalanceRead
                       /\ (b >= GasFloor /\ Verdict(req.payment) # "true")
                            => /\ req'.pc = "done" /\ req'.status = 402
                               /\ req'.rpc = BalanceReadThenVerify
                       /\ req'.pc = "settle"
                            => /\ b >= GasFloor
                               /\ Verdict(req.payment) = "true"
                               /\ req'.rpc = BalanceReadThenVerify
                       /\ UNCHANGED processorVars
       /\ (Len(req'.rpc) > Len(req.rpc)
              /\ req'.rpc[Len(req.rpc) + 1] = "processPayment")
          => req.pc = "settle" /\ req.rpc = BalanceReadThenVerify
       /\ (req'.paidViaX402 /\ ~req.paidViaX402)
          => /\ plast'.result = "ok"
             /\ Len(paymentProcessed') = Len(paymentProcessed) + 1
             /\ req'.rpc = BalanceReadThenVerify
                               \o <<"processPayment", "wait">>
       /\ tokenTransfers' # tokenTransfers
          => req.pc = "settle" /\ req'.paidViaX402]_vars

\* a payment that had settled once has been presented again: the
\* verification has refused it, and nothing was submitted for it
C22_Witness ==
    /\ req.status = 402
    /\ req.error = "Payment failed"
    /\ req.rpc = BalanceReadThenVerify
    /\ Len(tokenTransfers) = 1
    /\ Len(paymentProcessed) = 1

CallsOf(name) ==
    Cardinality({k \in 1..Len(req.rpc) : req.rpc[k] = name})

AttemptsBounded ==
    req.route = "access"
        => /\ CallsOf("premium") <= 3
           /\ CallsOf("credits") <= 3
           /\ req.read.attempt \in 1..3
           /\ req.read.inFlight = (IF req.pc = "await" THEN 1 ELSE 0)
           /\ req.read.waited = 1000 * (req.read.attempt - 1)
           /\ req.pc = "done"
                 => \/ req.access.allowed /\ ~req.access.pricing
                    \/ ~req.access.allowed /\ req.access.pricing

\* C23: in an access check each ledger read (premium, credit balance) is
\* called at most 3 times, with a wait of one second before each further
\* attempt and never a second call while one is pending; and the check
\* always comes to a decision, also when every attempt of every read fails.
C23_BoundedRetries ==
    /\ []AttemptsBounded
    /\ (req.route = "access" /\ req.pc # "done")
          ~> (req.route = "access" /\ req.pc = "done")

\* both reads have failed three times, two waits each, and the check has
\* decided
C23_Witness ==
    /\ req.route = "access"
    /\ req.pc = "done"
    /\ req.read.failed = {"premium", "credits"}
    /\ CallsOf("premium") = 3 /\ CallsOf("credits") = 3
    /\ req.read.waited = 2000
    /\ ~req.access.allowed

\* C24, as stated: when a ledger read of the access check has failed on
\* every attempt, the request is not allowed and is answered with payment
\* required, whatever the other reads return.
C24_FailedReadDenies ==
    [][req.pc = "check"
          => \A failed \in SUBSET ReadNames :
                (/\ failed # {}
                 /\ failed \subseteq ReadsMade(req.address, NoRequestId,
                                               req.item, failed)
                 /\ GenerateCheck(failed))
                    => /\ ~req'.access.allowed
                       /\ req'.pc = "done"
                       /\ req'.status = 402]_vars

\* C25: a failed generation changes nothing on the ledger: the credits that
\* were debited for the request stay debited, the request ends with the
\* error of the generation and grants nothing; and no balance ever grows in
\* the relay but by the grant of a purchase that was paid.
C25_DebitNotReversed ==
    [][/\ GenerateRespond
          => /\ UNCHANGED <<premiumExpiry, credits, usedRequestIds,
                            contractBalance, requestPaid>>
             /\ (req.debitApplied /\ req'.status # 200)
                    => /\ req'.status = 500
                       /\ req'.error = "AI generation failed"
                       /\ req'.granted = "none"
       /\ (\E a \in Addr : credits'[a] > credits[a])
          => PurchaseGrant /\ req.paidViaX402]_vars

\* an image request was debited 3 credits and its generation has failed
C25_Witness ==
    /\ req.route = "generate"
    /\ req.status = 500
    /\ req.debitApplied
    /\ req.debit = CreditCosts.image
    /\ credits["alice"] = 0
    /\ last = Outcome("useCredits", "ok")

\* the identifier a challenge was built for, as its memo carries it
RequestIdOf(challenge) == challenge.memo[4]

\* C26: the nonce of a challenge is a function of the request identifier
\* alone: of two challenges, built at any two times for any capabilities,
\* the nonces are equal exactly when the identifiers are; and the deadline
\* is the build time in whole seconds plus 3600.
C26_NonceFollowsIdentifier ==
    [][(req.route = "create402Response" /\ req'.route = "create402Response")
          => /\ (RequestIdOf(req.challenge) = RequestIdOf(req'.challenge))
                    <=> (req.challenge.nonce = req'.challenge.nonce)
             /\ \E seconds \in 0..4 :
                    /\ seconds * 1000 <= req'.dateNow
                    /\ req'.dateNow < (seconds + 1) * 1000
                    /\ req'.challenge.deadline = seconds + 3600]_vars

\* a challenge built 2.5 s after its identifier was minted carries the nonce
\* of the identifier and the deadline of its build time
C26_Witness ==
    /\ req.route = "create402Response"
    /\ RequestIdOf(req.challenge) = GenerateRequestId("alice", 1000)
    /\ req.dateNow = 3500
    /\ req.challenge.nonce = EthersId(GenerateRequestId("alice", 1000))
    /\ req.challenge.deadline = 3603

\* C27: payment data that lacks from, amount, nonce, deadline, signature or
\* usdcAuth is refused by processPayment of the relay before any call to the
\* chain, and a /generate request with an empty prompt or an unknown
\* capability is answered 400 before any such call: no balance read, no
\* verification, no settlement, no access check, nothing written.
C27_MalformedRejectedFirst ==
    [][/\ (req.pc = "verify" /\ LacksField(req.payment))
          => \A b \in RelayerBalances :
                VerifyStep(b)
                    => /\ req'.pc = "done" /\ req'.status = 402
                       /\ req'.rpc = <<>>
                       /\ ~req'.paidViaX402
                       /\ UNCHANGED <<ledgerVars, processorVars>>
       /\ (req'.route = "generate" /\ req.pc \in {"idle", "done"})
          => \/ /\ req'.pc = "done" /\ req'.status = 400
                /\ req'.rpc = <<>>
                /\ UNCHANGED <<ledgerVars, processorVars>>
             \/ \A a \in Callers, proof \in {"none", "own"},
                   promptOk \in BOOLEAN, c \in Capabilities :
                   \A payment \in {NoPayment, WholePayment(a)} :
                      (~promptOk \/ c \notin {"text", "image", "video"})
                          => ~GenerateReceive(a, proof, promptOk, c,
                                              payment)]_vars

\* payment data that lacks a field has been refused with no call made
C27_Witness ==
    /\ req.route = "processPayment"
    /\ req.status = 402
    /\ req.error = "Payment failed"
    /\ req.rpc = <<>>

\* C28, as stated: a purchase whose type is none of creditPack, premium7Days
\* and premium30Days is answered 400 at once: no challenge is issued for it
\* and its payment is never taken to the settlement.
C28_UnknownTypeIsMalformed ==
    [][(req'.route = "purchase" /\ req.pc \in {"idle", "done"})
          => \A a \in Callers, proof \in {"none", "own"}, packs \in 1..2,
                type \in {"gift", "none"} :
                \A payment \in RelayPayments(a) :
                PurchaseReceive(a, proof, type, packs, payment)
                    => /\ req'.pc = "done"
                       /\ req'.status = 400
                       /\ req'.challenge = 0]_vars

(***************************************************************************)
(* Properties of the authentication middleware.                            *)
(***************************************************************************)
\* C16, as stated: verifyWalletAuth rejects every request whose signed
\* message is older than MaxAge and every request whose recovered signer is
\* not the claimed address, compared without case; only when both checks
\* pass is the recovered address attached and the next handler called.
C16_RejectsOldAndForeign ==
    (req.route = "auth" /\ ~req.authSkipped)
        => LET body == req.auth
               recovered == verifySignature(body.message, body.signature)
               old == /\ body.message.kind = "text"
                      /\ req.dateNow - body.message.signedAt > MaxAge
               foreign == toLowerCase(recovered) # toLowerCase(body.address)
               rejected == req.pc = "done" /\ req.status \in {400, 401}
           IN  /\ old => rejected
               /\ foreign => rejected
               /\ req.pc = "next"
                    => ~old /\ ~foreign /\ req.verifiedAddress = recovered

(***************************************************************************)
(* Properties of the ledger.                                               *)
(***************************************************************************)
PaidCount(requestId) ==
    Cardinality({k \in 1..Len(requestPaid) :
                    requestPaid[k].requestId = requestId})

\* C1, as stated: once payPerRequest has succeeded for a callId, every later
\* payPerRequest with that callId fails with RequestIdAlreadyUsed, whatever
\* the amount sent with it.
C1_AlreadyUsedWhateverTheAmount ==
    [][\A s \in Addr, i \in RequestIds, v \in 0..2 :
          (last'.op = "payPerRequest" /\ PaidCount(i) > 0
              /\ payPerRequest(s, i, v))
              => last'.result = "RequestIdAlreadyUsed"]_vars

\* C1, amended: payPerRequest succeeds at most once for a callId, and every
\* later payPerRequest with that callId fails and records nothing: with
\* RequestIdAlreadyUsed when the amount is REQUEST_PRICE, with
\* IncorrectPayment (the amount is checked first) when it is not.
C1_PaidAtMostOnce ==
    [][/\ \A i \in RequestIds : PaidCount(i)' <= 1
       /\ \A s \in Addr, i \in RequestIds, v \in 0..2 :
            (last'.op = "payPerRequest" /\ PaidCount(i) > 0
                /\ payPerRequest(s, i, v))
                => /\ last'.result = IF v = REQUEST_PRICE
                                     THEN "RequestIdAlreadyUsed"
                                     ELSE "IncorrectPayment"
                   /\ UNCHANGED <<usedRequestIds, requestPaid,
                                  contractBalance>>]_vars

\* a replay with the right amount has been rejected
C1_Witness ==
    /\ last = Outcome("payPerRequest", "RequestIdAlreadyUsed")
    /\ \E i \in RequestIds : PaidCount(i) = 1

\* C2: a used flag is never cleared, by any ledger operation.
C2_UsedForever ==
    [][\A i \in RequestIds : usedRequestIds[i] => usedRequestIds'[i]]_vars

\* a callId is used and another operation has succeeded since
C2_Witness ==
    /\ \E i \in RequestIds : usedRequestIds[i]
    /\ last.op \in {"buyPro", "buyCredits", "useCredit", "useCredits",
                    "grantPremium", "grantCredits", "withdraw"}
    /\ last.result = "ok"

LedgerUntouched ==
    UNCHANGED <<premiumExpiry, credits, usedRequestIds, contractBalance,
                requestPaid>>

Max(a, b) == IF a > b THEN a ELSE b

C13_CreditsNeverOverdrawn ==
    [][/\ \A a \in Addr : credits'[a] >= 0
       /\ last'.op = "useCredits"
            => \A u \in Addr, k \in UseAmounts :
                  \/ /\ k > credits[u]
                          => /\ last'.result = "NoCreditsAvailable"
                             /\ credits' = credits
                     /\ last'.result = "ok"
                          => credits' = [credits EXCEPT ![u] = @ - k]
                  \/ \A s \in Addr : ~useCredits(s, u, k)
       /\ last'.op = "useCredit"
            => \/ last'.result = "NoCreditsAvailable" /\ credits' = credits
               \/ \A s \in Addr, u \in Addr :
                     credits[u] = 0 => ~useCredit(s, u)]_vars

\* a debit of 3 has been refused on a balance of 2 that an earlier debit left
C13_Witness ==
    /\ last = Outcome("useCredits", "NoCreditsAvailable")
    /\ \E a \in Addr : credits[a] = 2
    /\ opCount = 2

\* C14, as stated: useCredit and useCredits called by a sender other than the
\* operator are rejected and leave the target's balance as it was.
C14_OnlyTheOperatorConsumes ==
    [][/\ last'.op = "useCredit"
            => \A s \in Addr \ {Owner}, u \in Addr :
                  useCredit(s, u)
                      => last'.result # "ok" /\ credits'[u] = credits[u]
       /\ last'.op = "useCredits"
            => \A s \in Addr \ {Owner}, u \in Addr, k \in UseAmounts :
                  useCredits(s, u, k)
                      => last'.result # "ok" /\ credits'[u] = credits[u]]_vars

C18_ExpiryNeverDecreases ==
    [][(last'.op \in {"buyPro", "grantPremium"} /\ last'.result = "ok")
          => \A a \in Addr : premiumExpiry'[a] >= premiumExpiry[a]]_vars

C20_OnlyOwnerAdministers ==
    [][/\ last'.op = "grantPremium"
            => \/ last'.result = "NotOwner" /\ LedgerUntouched
               \/ \A s \in Addr \ {Owner}, u \in Addr, d \in GrantDurations :
                     ~grantPremium(s, u, d)
       /\ last'.op = "grantCredits"
            => \/ last'.result = "NotOwner" /\ LedgerUntouched
               \/ \A s \in Addr \ {Owner}, u \in Addr, a \in GrantAmounts :
                     ~grantCredits(s, u, a)
       /\ last'.op = "withdraw"
            => \/ last'.result = "NotOwner" /\ LedgerUntouched
               \/ \A s \in Addr \ {Owner}, ok \in BOOLEAN :
                     ~withdraw(s, ok)]_vars

\* a withdraw by another account has been refused with funds in the contract
C20_Witness ==
    /\ last = Outcome("withdraw", "NotOwner")
    /\ contractBalance > 0

\* C29: in every ledger state a callId is used exactly when one RequestPaid
\* event carries it, and no callId is carried by two; and the event that a
\* payment emits carries the caller of that payment, the per-call price and
\* the block timestamp of the payment.
C29_UsedIffPaidOnce ==
    [][/\ \A i \in RequestIds :
            /\ usedRequestIds'[i] <=> PaidCount(i)' = 1
            /\ PaidCount(i)' <= 1
       /\ (last'.op = "payPerRequest" /\ last'.result = "ok")
            => \A s \in Addr, i \in RequestIds :
                  \/ /\ Len(requestPaid') = Len(requestPaid) + 1
                     /\ requestPaid'[Len(requestPaid')]
                            = [user |-> s, requestId |-> i,
                               amount |-> REQUEST_PRICE, timestamp |-> now]
                     /\ ~usedRequestIds[i]
                  \/ ~payPerRequest(s, i, REQUEST_PRICE)]_vars

\* two callIds have been paid for, the second eight days after the first
C29_Witness ==
    /\ Len(requestPaid) = 2
    /\ requestPaid[1].requestId # requestPaid[2].requestId
    /\ requestPaid[1].timestamp = 1
    /\ requestPaid[2].timestamp = 1 + 8 * ONE_DAY
    /\ \A i \in RequestIds : usedRequestIds[i]

Changed(f, g) == Cardinality({a \in Addr : f[a] # g[a]})

\* the accounts other than u hold what they held
OthersKeep(u) ==
    \A a \in Addr \ {u} :
        premiumExpiry'[a] = premiumExpiry[a] /\ credits'[a] = credits[a]

\* C30: the tiers are independent on the ledger. payPerRequest leaves every
\* expiry and every balance as it was; buyPro and grantPremium leave every
\* balance and every used flag as it was; buyCredits, grantCredits,
\* useCredit and useCredits leave every expiry and every used flag as it
\* was; and each of them changes the expiry or the balance of one account
\* at most.
C30_TiersIndependent ==
    [][/\ last'.op = "payPerRequest"
            => premiumExpiry' = premiumExpiry /\ credits' = credits
       /\ last'.op \in {"buyPro", "grantPremium"}
            => /\ credits' = credits
               /\ usedRequestIds' = usedRequestIds
               /\ Changed(premiumExpiry', premiumExpiry) <= 1
       /\ last'.op \in {"buyCredits", "grantCredits", "useCredit",
                        "useCredits"}
            => /\ premiumExpiry' = premiumExpiry
               /\ usedRequestIds' = usedRequestIds
               /\ Changed(credits', credits) <= 1
       /\ last'.op = "buyPro"
            => \A s \in Addr :
                  \/ OthersKeep(s)
                  \/ \A d \in ProDurations, v \in ProValues : ~buyPro(s, d, v)
       /\ last'.op = "buyCredits"
            => \A s \in Addr :
                  \/ OthersKeep(s)
                  \/ \A p \in PackCounts, v \in PackValues :
                        ~buyCredits(s, p, v)
       /\ last'.op = "grantPremium"
            => \A u \in Addr :
                  \/ OthersKeep(u)
                  \/ \A s \in Addr, d \in GrantDurations :
                        ~grantPremium(s, u, d)
       /\ last'.op = "grantCredits"
            => \A u \in Addr :
                  \/ OthersKeep(u)
                  \/ \A s \in Addr, k \in GrantAmounts :
                        ~grantCredits(s, u, k)
       /\ last'.op = "useCredit"
            => \A u \in Addr :
                  OthersKeep(u) \/ \A s \in Addr : ~useCredit(s, u)
       /\ last'.op = "useCredits"
            => \A u \in Addr :
                  \/ OthersKeep(u)
                  \/ \A s \in Addr, k \in UseAmounts :
                        ~useCredits(s, u, k)]_vars

\* an account that holds premium has bought a pack of credits and holds
\* both, the other account holding neither
C30_Witness ==
    /\ last = Outcome("buyCredits", "ok")
    /\ \E a \in Addr :
          /\ hasPremium(a)
          /\ premiumExpiry[a] = 1 + 7 * ONE_DAY
          /\ credits[a] = CREDITS_PER_PACK
          /\ \A b \in Addr \ {a} : premiumExpiry[b] = 0 /\ credits[b] = 0

\* C32: a buyCredits that succeeds was paid packs x CREDIT_PACK_PRICE in
\* exact arithmetic: the balance of the contract grows by that product,
\* whatever the pack count, so no count of one or more is credited for a
\* smaller payment.
C32_PaidInExactArithmetic ==
    [][(last'.op = "buyCredits" /\ last'.result = "ok")
          => \A s \in Addr, p \in AnyPackCounts :
                \/ contractBalance' = contractBalance + p * CREDIT_PACK_PRICE
                \/ \A v \in AnyPackValues : ~buyCredits(s, p, v)]_vars

(***************************************************************************)
(* Properties of the processor.                                            *)
(***************************************************************************)
SettledCount(from, nonce) ==
    Cardinality({k \in 1..Len(paymentProcessed) :
                    /\ paymentProcessed[k].from = from
                    /\ paymentProcessed[k].nonce = nonce})

ProcessorUnchanged ==
    UNCHANGED <<usedNonces, paymentProcessed, tokenBalance, tokenAuthUsed,
                tokenTransfers>>

\* the inputs that the step, a call of `op`, may have been made with
Called(op) ==
    IF plast'.op = op /\ plast'.auth \in Authorizations
    THEN InputsOf(plast'.auth) ELSE {}

\* a good authorization of a signer who has not settled with its nonce
\* verifies, though another signer has settled with the same nonce value
OtherSignersUnblocked ==
    \A auth \in Authorizations :
        (/\ auth.from \in Addr
         /\ now <= auth.deadline
         /\ SettledCount(auth.from, auth.nonce) = 0
         /\ \E g \in Addr \ {auth.from} : SettledCount(g, auth.nonce) > 0)
            => verifyPaymentSignature(auth.from, auth.amount, auth.nonce,
                   auth.deadline, auth.memo, GoodSignature(auth)) = "true"

\* C3: a pair (from, nonce) settles at most once; after it has settled, every
\* processPayment for the pair is rejected, also one that carries another
\* amount or memo under a signature that is valid for them; and the same
\* nonce value remains usable by every other signer.
C3_NonceSettlesOnce ==
    [][/\ \A f \in Addr \cup {ZeroAddress}, n \in Nonces :
            SettledCount(f, n)' <= 1
       /\ \A x \in Called("processPayment") :
            (SettledCount(x.from, x.nonce) > 0 /\ processPayment(x))
                => plast'.result # "ok" /\ ProcessorUnchanged
       /\ OtherSignersUnblocked']_vars

\* two signers have settled with the same nonce value, and a replay by one
\* of them, signed for another amount or memo, has just been rejected
C3_Witness ==
    /\ \E f, g \in Addr, n \in Nonces :
          f # g /\ SettledCount(f, n) = 1 /\ SettledCount(g, n) = 1
    /\ plast.op = "processPayment"
    /\ plast.result = "InvalidPaymentSignature"
    /\ SettledCount(plast.auth.from, plast.auth.nonce) = 1
    /\ \A k \in 1..Len(paymentProcessed) :
          paymentProcessed[k].from = plast.auth.from
              => paymentProcessed[k].amount # plast.auth.amount

\* C8: when the token transfer reverts inside processPayment the whole
\* settlement reverts: no nonce is consumed, no event is emitted, the token
\* is untouched; and the same input, resubmitted when the transfer can
\* succeed (the authorization still being within its deadline), settles.
C8_RevertedSettlementIsUndone ==
    [][\A x \in Called("processPayment") :
          processPayment(x)
              => /\ (Verdict(x) = "true" /\ ~CanTransfer(x))
                        => /\ plast'.result = "TransferReverted"
                           /\ ProcessorUnchanged
                 /\ (/\ plast.result = "TransferReverted"
                     /\ plast.input = x
                     /\ CanTransfer(x)
                     /\ now <= x.deadline)
                        => /\ plast'.result = "ok"
                           /\ <<x.from, x.nonce>> \in usedNonces']_vars

\* an input whose transfer had reverted has been resubmitted and has settled
C8_Witness ==
    /\ plast.op = "processPayment"
    /\ plast.result = "ok"
    /\ plast.resubmitted
    /\ <<plast.auth.from, plast.auth.nonce>> \in usedNonces

\* C9: processPayment with an input that verifyPaymentSignature rejects
\* reverts: usedNonces is unchanged, no token is moved, no event is emitted.
C9_RejectedInputReverts ==
    [][\A x \in Called("processPayment") :
          (Verdict(x) = "false" /\ processPayment(x))
              => /\ plast'.result = "InvalidPaymentSignature"
                 /\ ProcessorUnchanged]_vars

\* a settlement has been rejected for its signature alone: its nonce was
\* fresh and its deadline not passed
C9_Witness ==
    /\ plast.op = "processPayment"
    /\ plast.result = "InvalidPaymentSignature"
    /\ <<plast.auth.from, plast.auth.nonce>> \notin usedNonces
    /\ now <= plast.auth.deadline

\* a fresh, unexpired authorization of an account under that account's
\* signature; every other input is invalid
ValidInput(x) ==
    /\ x.from \in Addr
    /\ x.signature = GoodSignature(x)
    /\ <<x.from, x.nonce>> \notin usedNonces
    /\ now <= x.deadline

\* C11, as stated: for every invalid input, a signature that is not a
\* well-formed 65-byte signature included, verifyPaymentSignature returns
\* false and does not revert.
C11_FailsClosed ==
    [][\A x \in Called("verifyPaymentSignature") :
          (~ValidInput(x) /\ callVerifyPaymentSignature(x))
              => plast'.result = "false"]_vars

\* C39: in every state of the processor the consumed (from, nonce) pairs,
\* the PaymentProcessed events and the token transfers correspond one to
\* one: the k-th event has the k-th transfer, of the event's amount, from
\* the event's `from` to the configured receiver, and its pair is consumed;
\* each consumed pair has exactly one event; and a settlement that has just
\* succeeded moved the amount of the authorization it was called with.
C39_OneSettlementPerConsumedNonce ==
    /\ Len(tokenTransfers) = Len(paymentProcessed)
    /\ \A k \in 1..Len(paymentProcessed) :
          /\ tokenTransfers[k] = [from |-> paymentProcessed[k].from,
                                  to |-> Receiver,
                                  value |-> paymentProcessed[k].amount]
          /\ <<paymentProcessed[k].from, paymentProcessed[k].nonce>>
                 \in usedNonces
    /\ \A pair \in usedNonces : SettledCount(pair[1], pair[2]) = 1
    /\ (plast.op = "processPayment" /\ plast.result = "ok")
          => /\ Len(paymentProcessed) > 0
             /\ paymentProcessed[Len(paymentProcessed)]
                    = [from |-> plast.auth.from, amount |-> plast.auth.amount,
                       nonce |-> plast.auth.nonce]

\* two signers have settled, each under its own nonce pair, for different
\* amounts
C39_Witness ==
    /\ Len(paymentProcessed) = 2
    /\ Cardinality(usedNonces) = 2
    /\ tokenTransfers[1].from # tokenTransfers[2].from
    /\ tokenTransfers[1].value # tokenTransfers[2].value
    /\ plast.op = "processPayment"
    /\ plast.result = "ok"

\* the requests in the relay, running or suspended, whose payment the relay
\* has taken as settled
PaidRequests ==
    (IF req.paidViaX402 THEN 1 ELSE 0)
        + (IF req.peer.paidViaX402 THEN 1 ELSE 0)

\* C35: a settled payment pays for one request. Each (from, nonce) has at
\* most one PaymentProcessed event; a request is taken as paid only by a
\* settle step that appends the event of its own payment, and a settle step
\* that appends none answers 402; no other step makes a request paid; the
\* paid requests in the relay never outnumber the events; two requests
\* that carry the same payment are never both paid; and only a paid request
\* is served or granted.
C35_OneSettlementOneService ==
    [][/\ \A x \in SignedPayments : SettledCount(x.from, x.nonce)' <= 1
       /\ RelaySettle
            => IF req'.paidViaX402
               THEN /\ SettledCount(req.payment.from, req.payment.nonce) = 0
                    /\ paymentProcessed'
                          = Append(paymentProcessed,
                                   [from |-> req.payment.from,
                                    amount |-> req.payment.amount,
                                    nonce |-> req.payment.nonce])
               ELSE /\ req'.status = 402
                    /\ paymentProcessed' = paymentProcessed
                    /\ tokenTransfers' = tokenTransfers
       /\ ~RelaySettle => /\ PaidRequests' <= PaidRequests
                          /\ paymentProcessed' = paymentProcessed
       /\ PaidRequests' <= Len(paymentProcessed')
       /\ (req'.payment # NoPayment /\ req'.peer.payment = req'.payment)
            => ~(req'.paidViaX402 /\ req'.peer.paidViaX402)
       /\ (GenerateRespond /\ req'.status = 200) => req.paidViaX402
       /\ (PurchaseGrant /\ req'.granted # "none") => req.paidViaX402]_vars

\* two requests carried the same payment and both passed the verification:
\* the one has been served on the settlement, the other was refused at its
\* own settle transaction
C35_Witness ==
    /\ req.pc = "done"
    /\ req.status = 402
    /\ req.rpc = <<"getBalance", "verifyPaymentSignature", "processPayment">>
    /\ req.peer.pc = "done"
    /\ req.peer.route = "generate"
    /\ req.peer.status = 200
    /\ req.peer.paidViaX402
    /\ Len(paymentProcessed) = 1
    /\ Len(tokenTransfers) = 1

(***************************************************************************)
(* Properties of the client and of the whole path                          *)
(***************************************************************************)
\* the call of fetch is over
CallOver == client.pc \in {"returned", "thrown"}

\* what fetch does at most, whatever the wallet and the relay answer
AtMostOneAttempt ==
    /\ client.sends <= 2
    /\ client.paymentSignatures <= 1
    /\ client.usdcSignatures <= 1
    /\ client.usdcSignatures <= client.paymentSignatures
    /\ (client.paymentSignatures > 0 \/ client.sends = 2)
         => client.firstStatus = 402
    /\ client.sends = 2 => client.usdcSignatures = 1

\* C40: X402Client.fetch signs nothing unless the first response has status
\* 402; after a 402 it has, when the call is over, signed the payment
\* authorization and the token authorization once each and sent the
\* request again exactly once; a failed resend ends the call with an error.
C40_SignsBothAndResendsOnce ==
    /\ AtMostOneAttempt
    /\ (CallOver /\ client.firstStatus = 402)
         => /\ client.paymentSignatures = 1
            /\ client.usdcSignatures = 1
            /\ client.sends = 2
    /\ (client.pc = "thrown" /\ client.sends = 2)
         => ~ResponseOk(client.status)

\* C40, amended: fetch signs nothing unless the first response has status
\* 402; each authorization is signed at most once, the token authorization
\* only after the payment authorization, and the request is sent again
\* exactly once when both were signed and not at all when the wallet
\* refused one; a call that returns after a 402 has signed both and resent
\* once; a call that throws has either resent nothing or had its single
\* resend refused, and a failed resend throws with nothing signed or sent
\* after it; a call that is over does nothing more.
C40_AtMostOnePaymentAttempt ==
    [][/\ AtMostOneAttempt'
       /\ (client'.pc \in {"second", "returned", "thrown"}
             /\ client'.usdcSignatures = 1) => client'.sends = 2
       /\ (client'.pc = "returned" /\ client'.firstStatus = 402)
            => /\ client'.sends = 2
               /\ client'.paymentSignatures = 1
               /\ client'.usdcSignatures = 1
               /\ ResponseOk(client'.status)
       /\ client'.pc = "thrown"
            => \/ client'.sends = 1
               \/ client'.sends = 2 /\ ~ResponseOk(client'.status)
       /\ (ClientSecondResponse /\ ~ResponseOk(req.status))
            => client' = [client EXCEPT !.pc = "thrown",
                                        !.status = req.status]
       /\ CallOver => (client' = client \/ ClientFetch)]_vars

\* the single resend was refused by the relay at its settlement, and the
\* call has thrown with one signature of each kind
C40_Witness ==
    /\ client.pc = "thrown"
    /\ client.firstStatus = 402
    /\ client.sends = 2
    /\ client.paymentSignatures = 1
    /\ client.usdcSignatures = 1
    /\ client.status = 402
    /\ req.error = "Payment failed"

\* the payment of the call in the client has been settled by the processor
ClientPaymentSettled ==
    SettledCount(client.address, client.payment.nonce) = 1

\* C31: end to end, a retried request whose two signatures the caller made
\* on the challenge, answered before the deadline by a relay whose relayer
\* was above the gas floor, for a caller who held the amount in tokens, is
\* settled and served as per-request.
C31_RetriedRequestSettledAndServed ==
    (/\ CallOver
     /\ client.sends = 2
     /\ now <= client.payment.deadline
     /\ \E k \in 1..Len(req.rpc) : req.rpc[k] = "verifyPaymentSignature"
     /\ \/ ClientPaymentSettled
        \/ tokenBalance[client.address] >= client.payment.amount)
        => /\ ClientPaymentSettled
           /\ client.pc = "returned"
           /\ client.status = 200
           /\ req.paidViaX402
           /\ req.actualAccessType = "per-request"

\* C37: verifyPaymentSignature returns true only for a signature made with
\* the key of `from` over exactly (from, amount, nonce, deadline, memo)
\* under this contract's domain: bytes from which no signer can be
\* recovered are accepted for no `from`, the zero address included, and a
\* signature made under another domain is not accepted.
C37_OnlyTheSignerOfFrom ==
    [][\A x \in Called("verifyPaymentSignature") :
          (callVerifyPaymentSignature(x) /\ plast'.result = "true")
              => x.signature = Sign(x.from,
                                    PaymentDigest(ThisDomain, x.from, x.amount,
                                                  x.nonce, x.deadline,
                                                  x.memo))]_vars

\* C10: verifyPaymentSignature is false for a consumed (from, nonce), for a
\* passed deadline and for a recovered signer other than `from`; it is true
\* for an unconsumed, unexpired authorization signed by `from`; and it writes
\* nothing.
C10_VerifyClassifies ==
    [][\A x \in Called("verifyPaymentSignature") :
          callVerifyPaymentSignature(x)
              => /\ (<<x.from, x.nonce>> \in usedNonces)
                        => plast'.result = "false"
                 /\ (now > x.deadline) => plast'.result = "false"
                 /\ (/\ x.signature.kind # "badLength"
                     /\ ecrecover(PaymentDigest(ThisDomain, x.from, x.amount,
                            x.nonce, x.deadline, x.memo), x.signature) # x.from)
                        => plast'.result = "false"
                 /\ (/\ x.from \in Addr
                     /\ x.signature = GoodSignature(x)
                     /\ <<x.from, x.nonce>> \notin usedNonces
                     /\ now <= x.deadline)
                        => plast'.result = "true"
                 /\ ProcessorUnchanged]_vars

\* an authorization of an account, its nonce unconsumed, has been refused
\* after its deadline
C10_Witness ==
    /\ plast.op = "verifyPaymentSignature"
    /\ plast.result = "false"
    /\ plast.auth.from \in Addr
    /\ <<plast.auth.from, plast.auth.nonce>> \notin usedNonces
    /\ now > plast.auth.deadline

====
